---- MODULE Spec2Model ----
(***************************************************************************)
(* Object/version lifecycle of the S3-compatible storage service:         *)
(* ObjectService and BucketService (services layer) over the Sequelize     *)
(* catalog (Bucket, S3Object; paranoid soft deletes) and the filesystem    *)
(* StorageProvider (blob file plus ".meta" sidecar per bucket/key).        *)
(***************************************************************************)
EXTENDS Integers, Sequences, FiniteSets, TLC

(* ------------------------------ bounds -------------------------------- *)
\* at most MaxVersions S3Object rows are ever created (live or soft-deleted)
MaxVersions == 2

BucketNames == {"b1", "b2"}
Keys == {"k1"}
\* byte payloads of the uploads
Payloads == {<<1>>, <<2, 3>>}
Procs == {"t1", "t2"}

\* the multipart bodies of the uploads: req.file.buffer, req.file.mimetype
\* and the text of the "metadata" form field ("" when the field is absent)
Files == {[buffer |-> <<1>>, mimetype |-> "text/plain", metadata |-> "{author:ann}"],
          [buffer |-> <<2, 3>>, mimetype |-> "image/png", metadata |-> ""]}
\* the authenticated caller (req.user.id)
Actor == "user-1"

\* the authenticated users: the one who uploads, and another one
Users == {Actor, "user-2"}

NoVersion == 0
NoBlob == [present |-> FALSE]
NoMeta == [present |-> FALSE]
EmptyData == <<>>
\* the empty string '' of an absent etag
NoEtag == -1
NoReason == "none"
NoResource == <<>>
NoAudit == "none"
\* the body of an answer that is not a listing; nextMarker <<>> is null
NoList == [contents |-> <<>>, commonPrefixes |-> <<>>,
           isTruncated |-> FALSE, nextMarker |-> <<>>]
\* a value that was never given (null, undefined)
Unset == "unset"
\* the acl column of a row whose ACL was never written
NoAcl == [owner |-> Unset, grants |-> <<>>]

(* ------------------------------ state --------------------------------- *)
VARIABLES
  buckets,   \* table "buckets": name -> [state, copies, versioningEnabled, ...]
  rows,      \* table "s3_objects": sequence of rows, index = versionId
  blobs,     \* storage root: <<bucket, key>> -> file and sidecar
  resp,      \* outcome of the last completed request
  tasks,     \* in-flight requests (one per concurrent request)
  accessLogs \* table "access_logs": sequence of the rows inserted

vars == <<buckets, rows, blobs, resp, tasks, accessLogs>>

(* --------------------------- pure helpers ----------------------------- *)
\* crypto.createHash('md5').update(data).digest('hex'), as a digest over
\* the bounded payload domain (a polynomial fold of the bytes and length)
RECURSIVE HashFold(_)
HashFold(data) ==
  IF data = <<>> THEN 7
  ELSE (HashFold(SubSeq(data, 1, Len(data) - 1)) * 31 + data[Len(data)]) % 251

_calculateHash(data) == HashFold(data)

Idx(rs) == 1..Len(rs)

\* default scope of a paranoid model: rows with deleted_at IS NULL
Live(rs) == {i \in Idx(rs) : ~rs[i].deleted}

liveBucket(bs, name) == bs[name].state = "live"

\* Bucket.findOne({ where: { name } }): bucket id is identified with the name
\* (the name column is unique over live and soft-deleted rows alike)
findBucket(bs, name) == IF liveBucket(bs, name) THEN name ELSE "none"

\* where { bucketId, key } restricted by versionId when given, else isLatest
\* the lookup without its isLatest condition
matchVersion_AnyRow(rs, b, k, vid) ==
  {i \in Live(rs) : /\ rs[i].bucket = b
                    /\ rs[i].key = k
                    /\ IF vid # NoVersion THEN rs[i].versionId = vid ELSE TRUE}

matchVersion(rs, b, k, vid) ==
  {i \in Live(rs) : /\ rs[i].bucket = b
                    /\ rs[i].key = k
                    /\ IF vid # NoVersion THEN rs[i].versionId = vid
                                          ELSE rs[i].isLatest}

keyRows(rs, b, k) == {i \in Live(rs) : rs[i].bucket = b /\ rs[i].key = k}

bucketRows(rs, b) == {i \in Live(rs) : rs[i].bucket = b}

\* the next row of a result set taken in turn
Min(S) == CHOOSE x \in S : \A y \in S : x <= y

(* ------------------------- StorageProvider ---------------------------- *)
\* putObject taking the digest before any byte was hashed
putObject_StaleEtag(bl, b, k, data) ==
  [bl EXCEPT ![<<b, k>>] =
     [present |-> TRUE, data |-> data,
      meta |-> [present |-> TRUE, size |-> Len(data),
                etag |-> _calculateHash(EmptyData)]]]

\* putObject with a Buffer: writeFile(objectPath), then the sidecar
putObject(bl, b, k, data) ==
  [bl EXCEPT ![<<b, k>>] =
     [present |-> TRUE, data |-> data,
      meta |-> [present |-> TRUE, size |-> Len(data),
                etag |-> _calculateHash(data)]]]

\* deleteObject: unlink file (ENOENT ignored), unlink sidecar (errors ignored)
deleteObject(bl, b, k) == [bl EXCEPT ![<<b, k>>] = NoBlob]

\* getObject: fs.access, sidecar read tolerating absence
getObject(bl, b, k) ==
  LET f == bl[<<b, k>>] IN
  IF ~f.present THEN [ok |-> FALSE, stream |-> EmptyData, size |-> 0, etag |-> NoEtag]
  ELSE [ok |-> TRUE, stream |-> f.data,
        size |-> IF f.meta.present THEN f.meta.size ELSE 0,
        etag |-> IF f.meta.present THEN f.meta.etag ELSE NoEtag]

\* --- the paths of the objects ---
\* a path is the sequence of its segments; basePath is one directory
basePath == <<"storage">>

\* object keys as the API accepts them (any string of 1 to 1024 characters),
\* cut at their "/" into segments
PathKeys == {<<"k1">>, <<"dir", "k1">>, <<"..", "b2", "k1">>, <<"..", "..", "etc">>}

\* path.join: the segments normalised, ".." taking back the segment before it
\* and staying when there is none to take back
RECURSIVE pathJoin(_)
pathJoin(segments) ==
  IF segments = <<>> THEN <<>>
  ELSE LET front == pathJoin(SubSeq(segments, 1, Len(segments) - 1))
           last == segments[Len(segments)]
       IN IF last = ".." /\ front # <<>> /\ front[Len(front)] # ".."
            THEN SubSeq(front, 1, Len(front) - 1)
          ELSE Append(front, last)

\* path.join(bucketName, objectKey)
_generateStorageKey(bucketName, objectKey) == pathJoin(<<bucketName>> \o objectKey)

\* path.join(this.basePath, storageKey)
_getObjectPath(storageKey) == pathJoin(basePath \o storageKey)

(* --------------------------- responses -------------------------------- *)
\* what a handler hands back: status and error code, and for object reads
\* and writes the bytes, etag, size and versionId of the result
Response(op, status, code, body, etag, size, versionId) ==
  [op |-> op, status |-> status, code |-> code,
   body |-> body, etag |-> etag, size |-> size, versionId |-> versionId,
   reason |-> NoReason, resource |-> NoResource,
   acl |-> NoAcl, tagSet |-> <<>>, list |-> NoList]

\* an error answer; new AppError('Access denied', 403, 'ACCESS_DENIED') is the
\* one whose message speaks of the authorization decision
Fail(op, status, code) ==
  [Response(op, status, code, EmptyData, NoEtag, 0, NoVersion)
     EXCEPT !.reason = IF code = "ACCESS_DENIED" THEN "Access denied" ELSE NoReason]

IdleTask == [pc |-> "idle"]

\* no row of table "buckets" carries the name
NoBucket ==
  [state |-> "absent", copies |-> 0, versioningEnabled |-> FALSE,
   policy |-> Unset, corsConfiguration |-> Unset]

Init ==
  /\ buckets = [n \in BucketNames |-> NoBucket]
  /\ rows = <<>>
  /\ blobs = [p \in BucketNames \X Keys |-> NoBlob]
  /\ resp = Fail("NONE", 0, "NONE")
  /\ tasks = [p \in Procs |-> IdleTask]
  /\ accessLogs = <<>>

(* ------------------------- Metadata Catalog --------------------------- *)
\* the update of the previous versions left out
markPreviousVersions_Skip(rs, b, k) == rs

\* S3Object.update({ isLatest: false }, { where: { bucketId, key } })
markPreviousVersions(rs, b, k) ==
  [i \in Idx(rs) |->
     IF i \in keyRows(rs, b, k) THEN [rs[i] EXCEPT !.isLatest = FALSE] ELSE rs[i]]

\* a JSON object is the set of its <<name, value>> members; {} has none
EmptyObject == {}

\* tags: defaultValue {}; an object whose entries are read in insertion order
\* is the sequence of its <<key, value>> pairs
EmptyTags == <<>>

\* req.body.metadata ? JSON.parse(req.body.metadata) : {}
parseUserMetadata(text) ==
  IF text = "" THEN EmptyObject
  ELSE IF text = "{author:ann}" THEN {<<"author", "ann">>}
  ELSE {<<"raw", text>>}

DefaultContentType == "application/octet-stream"

\* S3Object.create({...}): fresh versionId (UUIDv4), isLatest true, the
\* content type handed in or the default, the user metadata object handed
\* in, tags {} and acl null by the column defaults
createRow(rs, b, k, data, etag, metadata) ==
  Append(rs, [versionId |-> Len(rs) + 1, bucket |-> b, key |-> k,
              isLatest |-> TRUE, size |-> Len(data), etag |-> etag,
              contentType |-> IF metadata.contentType = Unset
                                THEN DefaultContentType ELSE metadata.contentType,
              metadata |-> metadata.userMetadata,
              tags |-> EmptyTags, acl |-> NoAcl, ownerId |-> Actor,
              deleted |-> FALSE])

\* destroy that leaves the row in place
destroyRow_Noop(rs, i) == rs

\* instance.destroy() on a paranoid model: soft delete (deleted_at is set; the
\* row leaves the default scope and only its identity is kept here)
destroyRow(rs, i) ==
  [rs EXCEPT ![i] = [versionId |-> rs[i].versionId, bucket |-> rs[i].bucket,
                     key |-> rs[i].key, deleted |-> TRUE]]

\* the query answered as if bucketName were a column of the table
whereBucketName_Column(rs, bucketName) ==
  [error |-> FALSE, found |-> {i \in DOMAIN rs : ~rs[i].deleted /\ rs[i].bucket = bucketName}]

\* S3Object query with where { bucketName }: bucketName is a VIRTUAL
\* attribute, so the generated SQL names a column the table does not have
\* and the database rejects the statement
whereBucketName(rs, bucketName) == [error |-> TRUE, found |-> {}]

(* --------------------------- ObjectService ---------------------------- *)
Outcome(rs, bl, r) == [rows |-> rs, blobs |-> bl, resp |-> r]

uploadObject(bs, rs, bl, op, b, k, data, metadata, allowed) ==
  IF findBucket(bs, b) = "none"
    THEN Outcome(rs, bl, Fail(op, 404, "BUCKET_NOT_FOUND"))
  ELSE IF ~allowed
    THEN Outcome(rs, bl, Fail(op, 403, "ACCESS_DENIED"))
  ELSE
    LET bl1 == putObject(bl, b, k, data)
        etag == bl1[<<b, k>>].meta.etag
    IN IF bs[b].versioningEnabled
         THEN LET rs1 == markPreviousVersions(rs, b, k)
                  rs2 == createRow(rs1, b, k, data, etag, metadata)
              IN Outcome(rs2, bl1,
                   Response(op, 201, "CREATED", EmptyData, etag, Len(data), Len(rs2)))
         ELSE LET q == whereBucketName(rs, b)
              IN IF q.error
                   THEN Outcome(rs, bl1,
                          Fail(op, 500, "DATABASE_ERROR"))
                 ELSE IF {i \in q.found : rs[i].key = k} # {}
                   \* storageProvider.delete is not a method of StorageProvider
                   THEN Outcome(rs, bl1,
                          Fail(op, 500, "TYPE_ERROR"))
                 ELSE LET rs2 == createRow(rs, b, k, data, etag, metadata)
                      IN Outcome(rs2, bl1,
                           Response(op, 201, "CREATED", EmptyData, etag, Len(data), Len(rs2)))

\* response built from the row found and the physical file at bucket/key
downloadResult(rs, bl, b, k, vid, allowed, i) ==
  LET result == getObject(bl, b, k) IN
  IF ~result.ok
    THEN Fail("GET", 500, "STORAGE_ERROR")
  ELSE Response("GET", 200, "OK", result.stream,
                IF result.etag # NoEtag THEN result.etag ELSE rs[i].etag,
                IF result.size # 0 THEN result.size ELSE rs[i].size,
                \* metadata.version is s3Object.version, not an attribute of the row
                NoVersion)

\* the responses downloadObject can give (findOne returns any matching row)
downloadObject(bs, rs, bl, b, k, vid, allowed) ==
  IF findBucket(bs, b) = "none"
    THEN {Fail("GET", 404, "BUCKET_NOT_FOUND")}
  ELSE IF ~allowed
    THEN {Fail("GET", 403, "ACCESS_DENIED")}
  ELSE IF matchVersion(rs, b, k, vid) = {}
    THEN {Fail("GET", 404, "OBJECT_NOT_FOUND")}
  ELSE {downloadResult(rs, bl, b, k, vid, allowed, i) : i \in matchVersion(rs, b, k, vid)}

\* HEAD: answered from the catalog row alone
getObjectMetadata(bs, rs, b, k, vid, allowed) ==
  IF findBucket(bs, b) = "none"
    THEN {Fail("HEAD", 404, "BUCKET_NOT_FOUND")}
  ELSE IF ~allowed
    THEN {Fail("HEAD", 403, "ACCESS_DENIED")}
  ELSE IF matchVersion(rs, b, k, vid) = {}
    THEN {Fail("HEAD", 404, "OBJECT_NOT_FOUND")}
  ELSE {Response("HEAD", 200, "OK", EmptyData, rs[i].etag, rs[i].size, rs[i].versionId) :
          i \in matchVersion(rs, b, k, vid)}

\* listObjects with the default prefix, marker and maxKeys: the versionIds of
\* the bucket's rows, all of them in versions mode, else the latest ones
listObjects(rs, b, versions) ==
  {rs[i].versionId : i \in {j \in bucketRows(rs, b) : versions \/ rs[j].isLatest}}

\* --- listObjects with its options ---
\* the keys of the listings are spelled out, character by character; the
\* characters in the order of their codes ("/" 47, "_" 95, "a" 97, "b" 98)
CharCode == [c \in {"/", "_", "a", "b"} |->
               CASE c = "/" -> 47 [] c = "_" -> 95 [] c = "a" -> 97 [] c = "b" -> 98]

ListKeys == {<<"a">>, <<"a", "b">>, <<"a", "/", "b">>}

\* key > marker and ORDER BY key ASC: the order of the strings
KeyLess(x, y) ==
  \E n \in 0..Len(x) :
    /\ n <= Len(y)
    /\ \A i \in 1..n : x[i] = y[i]
    /\ \/ n = Len(x) /\ n < Len(y)
       \/ n < Len(x) /\ n < Len(y) /\ CharCode[x[n + 1]] < CharCode[y[n + 1]]

\* key LIKE `${prefix}%`: "_" of the prefix stands for any one character
\* ("%" and the escape character are not among the characters drawn)
likePrefix(key, prefix) ==
  /\ Len(key) >= Len(prefix)
  /\ \A i \in 1..Len(prefix) : prefix[i] = "_" \/ prefix[i] = key[i]

\* the where conditions: bucketId, isLatest unless versions, key LIKE when a
\* prefix is given, key > marker when a marker is given
listMatches(rs, b, o) ==
  {i \in bucketRows(rs, b) :
     /\ o.versions \/ rs[i].isLatest
     /\ o.prefix # <<>> => likePrefix(rs[i].key, o.prefix)
     /\ o.marker # <<>> => KeyLess(o.marker, rs[i].key)}

\* Math.min(parseInt(maxKeys), 1000)
listLimit(maxKeys) == IF maxKeys < 1000 THEN maxKeys ELSE 1000

\* S3Object.findAll({ where, limit, order: [['key', 'ASC']] }): the first
\* limit rows in key order, rows of equal key in any order
findAll(rs, M, limit) ==
  LET n == IF Cardinality(M) < limit THEN Cardinality(M) ELSE limit IN
  {s \in [1..n -> M] :
     /\ \A i, j \in 1..n : i < j => s[i] # s[j] /\ ~KeyLess(rs[s[j]].key, rs[s[i]].key)
     /\ \A m \in M \ {s[i] : i \in 1..n} :
          \A i \in 1..n : ~KeyLess(rs[m].key, rs[s[i]].key)}

\* indexOf that never finds the delimiter
delimiterIndex_None(key, prefix, delimiter) == 0

\* position of the first delimiter of key after the prefix, 0 when there is none
delimiterIndex(key, prefix, delimiter) ==
  LET P == {p \in (Len(prefix) + 1)..Len(key) : key[p] = delimiter} IN
  IF P = {} THEN 0 ELSE Min(P)

\* the delimiter logic over the rows found: the direct objects, in order
RECURSIVE filteredContents(_, _, _)
filteredContents(rs, objects, o) ==
  IF objects = <<>> THEN <<>>
  ELSE LET rest == filteredContents(rs, SubSeq(objects, 1, Len(objects) - 1), o)
           obj == objects[Len(objects)]
       IN IF delimiterIndex(rs[obj].key, o.prefix, o.delimiter) # 0
            THEN rest ELSE Append(rest, obj)

\* prefixMap.keys(): the common prefixes in the order of their first row
RECURSIVE commonPrefixes(_, _, _)
commonPrefixes(rs, objects, o) ==
  IF objects = <<>> THEN <<>>
  ELSE LET rest == commonPrefixes(rs, SubSeq(objects, 1, Len(objects) - 1), o)
           key == rs[objects[Len(objects)]].key
           d == delimiterIndex(key, o.prefix, o.delimiter)
           cp == o.prefix \o SubSeq(key, Len(o.prefix) + 1, d)
       IN IF d = 0 \/ \E p \in 1..Len(rest) : rest[p] = cp
            THEN rest ELSE Append(rest, cp)

\* the value listObjects returns for the rows found
listResult(rs, objects, o) ==
  LET contents == IF o.delimiter # "" THEN filteredContents(rs, objects, o) ELSE objects IN
  [contents |-> [p \in 1..Len(contents) |->
                   [key |-> rs[contents[p]].key, size |-> rs[contents[p]].size,
                    etag |-> rs[contents[p]].etag]],
   commonPrefixes |-> IF o.delimiter # "" THEN commonPrefixes(rs, objects, o) ELSE <<>>,
   isTruncated |-> Len(objects) = o.maxKeys,
   nextMarker |-> IF Len(objects) > 0 THEN rs[objects[Len(objects)]].key ELSE <<>>]

\* the answers of listObjects(bucketName, userId, options)
listObjectsWith(bs, rs, b, o, allowed) ==
  IF findBucket(bs, b) = "none"
    THEN {Fail("LIST", 404, "BUCKET_NOT_FOUND")}
  ELSE IF ~allowed
    THEN {Fail("LIST", 403, "ACCESS_DENIED")}
  ELSE {[Fail("LIST", 200, "OK") EXCEPT !.list = listResult(rs, objects, o)] :
          objects \in findAll(rs, listMatches(rs, b, o), listLimit(o.maxKeys))}

\* the loop over objectsToDelete: physical delete, then destroy, per row
RECURSIVE destroyAll(_, _)
destroyAll(rs, S) ==
  IF S = {} THEN rs ELSE destroyAll(destroyRow(rs, Min(S)), S \ {Min(S)})

deleteObjectService(bs, rs, bl, b, k, vid, allowed) ==
  IF findBucket(bs, b) = "none"
    THEN Outcome(rs, bl, Fail("DELETE", 404, "BUCKET_NOT_FOUND"))
  ELSE IF ~allowed
    THEN Outcome(rs, bl, Fail("DELETE", 403, "ACCESS_DENIED"))
  ELSE LET objectsToDelete == matchVersion(rs, b, k, vid) IN
    IF objectsToDelete = {}
      THEN Outcome(rs, bl, Fail("DELETE", 404, "OBJECT_NOT_FOUND"))
    ELSE Outcome(destroyAll(rs, objectsToDelete), deleteObject(bl, b, k),
                 Fail("DELETE", 204, "NO_CONTENT"))

\* the upload of the copy without the source row's content type and metadata
copyUpload_DefaultMetadata(bs, rs, bl, sb, sk, db, dk, i, allowedWrite) ==
  LET sourceData == getObject(bl, sb, sk) IN
  IF ~sourceData.ok
    THEN Outcome(rs, bl, Fail("COPY", 500, "STORAGE_ERROR"))
  ELSE uploadObject(bs, rs, bl, "COPY", db, dk, sourceData.stream,
                    [contentType |-> Unset, userMetadata |-> EmptyObject],
                    allowedWrite)

\* the upload of the copy, for the source row i that findOne returned: the
\* bytes read from the source's file, the row's content type and metadata
copyUpload(bs, rs, bl, sb, sk, db, dk, i, allowedWrite) ==
  LET sourceData == getObject(bl, sb, sk) IN
  IF ~sourceData.ok
    THEN Outcome(rs, bl, Fail("COPY", 500, "STORAGE_ERROR"))
  ELSE uploadObject(bs, rs, bl, "COPY", db, dk, sourceData.stream,
                    [contentType |-> rs[i].contentType,
                     userMetadata |-> rs[i].metadata],
                    allowedWrite)

\* copyObject that does not look at the answer for the source
copyObject_NoReadCheck(bs, rs, bl, sb, sk, db, dk, allowedRead, allowedWrite) ==
  IF findBucket(bs, sb) = "none"
    THEN {Outcome(rs, bl, Fail("COPY", 404, "SOURCE_BUCKET_NOT_FOUND"))}
  ELSE IF findBucket(bs, db) = "none"
    THEN {Outcome(rs, bl, Fail("COPY", 404, "DEST_BUCKET_NOT_FOUND"))}
  ELSE IF ~allowedWrite
    THEN {Outcome(rs, bl, [Fail("COPY", 403, "ACCESS_DENIED")
                             EXCEPT !.reason = "Access denied to destination"])}
  ELSE IF matchVersion(rs, sb, sk, NoVersion) = {}
    THEN {Outcome(rs, bl, Fail("COPY", 404, "SOURCE_OBJECT_NOT_FOUND"))}
  ELSE {copyUpload(bs, rs, bl, sb, sk, db, dk, i, allowedWrite) :
          i \in matchVersion(rs, sb, sk, NoVersion)}

\* the outcomes copyObject can have (findOne returns any latest source row);
\* the second permission is asked for before the first answer is looked at
copyObject(bs, rs, bl, sb, sk, db, dk, allowedRead, allowedWrite) ==
  IF findBucket(bs, sb) = "none"
    THEN {Outcome(rs, bl, Fail("COPY", 404, "SOURCE_BUCKET_NOT_FOUND"))}
  ELSE IF findBucket(bs, db) = "none"
    THEN {Outcome(rs, bl, Fail("COPY", 404, "DEST_BUCKET_NOT_FOUND"))}
  ELSE IF ~allowedRead
    THEN {Outcome(rs, bl, [Fail("COPY", 403, "ACCESS_DENIED")
                             EXCEPT !.reason = "Access denied to source object"])}
  ELSE IF ~allowedWrite
    THEN {Outcome(rs, bl, [Fail("COPY", 403, "ACCESS_DENIED")
                             EXCEPT !.reason = "Access denied to destination"])}
  ELSE IF matchVersion(rs, sb, sk, NoVersion) = {}
    THEN {Outcome(rs, bl, Fail("COPY", 404, "SOURCE_OBJECT_NOT_FOUND"))}
  ELSE {copyUpload(bs, rs, bl, sb, sk, db, dk, i, allowedWrite) :
          i \in matchVersion(rs, sb, sk, NoVersion)}

\* request bodies of the ACL and tagging updates
\* (a JSON value is a list of items or something else)
GrantsInputs == {[array |-> TRUE,
                  items |-> <<[grantee |-> "user-2", permission |-> "READ"]>>],
                 [array |-> FALSE, items |-> <<>>]}

TagSetInputs == {[array |-> TRUE, items |-> <<[key |-> "env", value |-> "prod"]>>],
                 [array |-> TRUE, items |-> <<[key |-> "", value |-> "prod"]>>],
                 [array |-> FALSE, items |-> <<>>]}

\* Array.isArray
isArray(x) == x.array

\* tags[key] = value: the value of a key already present is replaced where
\* the key stands, a new key goes last
assign(tags, key, value) ==
  IF \E p \in 1..Len(tags) : tags[p][1] = key
    THEN [p \in 1..Len(tags) |-> IF tags[p][1] = key THEN <<key, value>> ELSE tags[p]]
  ELSE Append(tags, <<key, value>>)

\* the loop tags[tag.key] = tag.value over the tagSet, from const tags = {}
RECURSIVE tagsObject(_)
tagsObject(tagSet) ==
  IF tagSet = <<>> THEN EmptyTags
  ELSE assign(tagsObject(SubSeq(tagSet, 1, Len(tagSet) - 1)),
              tagSet[Len(tagSet)].key, tagSet[Len(tagSet)].value)

\* the outcomes of updateObjectAcl (findOne returns any latest row)
updateObjectAcl(bs, rs, bl, b, k, grants, allowed) ==
  IF findBucket(bs, b) = "none"
    THEN {Outcome(rs, bl, Fail("PUT_ACL", 404, "BUCKET_NOT_FOUND"))}
  ELSE IF ~allowed
    THEN {Outcome(rs, bl, Fail("PUT_ACL", 403, "ACCESS_DENIED"))}
  ELSE IF matchVersion(rs, b, k, NoVersion) = {}
    THEN {Outcome(rs, bl, Fail("PUT_ACL", 404, "OBJECT_NOT_FOUND"))}
  ELSE IF ~isArray(grants)
    THEN {Outcome(rs, bl, Fail("PUT_ACL", 400, "INVALID_GRANTS"))}
  ELSE {Outcome([rs EXCEPT ![i].acl = [owner |-> Actor, grants |-> grants.items]], bl,
                [Fail("PUT_ACL", 200, "OK")
                   EXCEPT !.acl = [owner |-> Actor, grants |-> grants.items]]) :
          i \in matchVersion(rs, b, k, NoVersion)}

\* updateObjectTags writing the submitted tags over the stored ones, key by key
updateObjectTags_Merge(bs, rs, bl, b, k, tagSet, allowed) ==
  IF findBucket(bs, b) = "none"
    THEN {Outcome(rs, bl, Fail("PUT_TAGGING", 404, "BUCKET_NOT_FOUND"))}
  ELSE IF ~allowed
    THEN {Outcome(rs, bl, Fail("PUT_TAGGING", 403, "ACCESS_DENIED"))}
  ELSE IF matchVersion(rs, b, k, NoVersion) = {}
    THEN {Outcome(rs, bl, Fail("PUT_TAGGING", 404, "OBJECT_NOT_FOUND"))}
  ELSE IF ~isArray(tagSet)
    THEN {Outcome(rs, bl, Fail("PUT_TAGGING", 400, "INVALID_TAGSET"))}
  ELSE IF \E i \in 1..Len(tagSet.items) :
            tagSet.items[i].key = "" \/ tagSet.items[i].value = ""
    THEN {Outcome(rs, bl, Fail("PUT_TAGGING", 400, "INVALID_TAG"))}
  ELSE {Outcome([rs EXCEPT ![i].tags =
                   tagsObject([p \in 1..Len(rs[i].tags) |->
                                 [key |-> rs[i].tags[p][1], value |-> rs[i].tags[p][2]]]
                              \o tagSet.items)], bl,
                [Fail("PUT_TAGGING", 200, "OK") EXCEPT !.tagSet = tagSet.items]) :
          i \in matchVersion(rs, b, k, NoVersion)}

\* the outcomes of updateObjectTags
updateObjectTags(bs, rs, bl, b, k, tagSet, allowed) ==
  IF findBucket(bs, b) = "none"
    THEN {Outcome(rs, bl, Fail("PUT_TAGGING", 404, "BUCKET_NOT_FOUND"))}
  ELSE IF ~allowed
    THEN {Outcome(rs, bl, Fail("PUT_TAGGING", 403, "ACCESS_DENIED"))}
  ELSE IF matchVersion(rs, b, k, NoVersion) = {}
    THEN {Outcome(rs, bl, Fail("PUT_TAGGING", 404, "OBJECT_NOT_FOUND"))}
  ELSE IF ~isArray(tagSet)
    THEN {Outcome(rs, bl, Fail("PUT_TAGGING", 400, "INVALID_TAGSET"))}
  ELSE IF \E i \in 1..Len(tagSet.items) :
            tagSet.items[i].key = "" \/ tagSet.items[i].value = ""
    THEN {Outcome(rs, bl, Fail("PUT_TAGGING", 400, "INVALID_TAG"))}
  ELSE {Outcome([rs EXCEPT ![i].tags = tagsObject(tagSet.items)], bl,
                [Fail("PUT_TAGGING", 200, "OK") EXCEPT !.tagSet = tagSet.items]) :
          i \in matchVersion(rs, b, k, NoVersion)}

\* s3Object.acl || { owner: { id: userId }, grants: [{ grantee: { id: userId },
\* permission: 'FULL_CONTROL' }] }
defaultAcl(row, userId) ==
  IF row.acl # NoAcl THEN row.acl
  ELSE [owner |-> userId,
        grants |-> <<[grantee |-> userId, permission |-> "FULL_CONTROL"]>>]

\* the answers of getObjectAcl to userId (findOne returns any latest row)
getObjectAcl(bs, rs, b, k, userId, allowed) ==
  IF findBucket(bs, b) = "none"
    THEN {Fail("GET_ACL", 404, "BUCKET_NOT_FOUND")}
  ELSE IF ~allowed
    THEN {Fail("GET_ACL", 403, "ACCESS_DENIED")}
  ELSE IF matchVersion(rs, b, k, NoVersion) = {}
    THEN {Fail("GET_ACL", 404, "OBJECT_NOT_FOUND")}
  ELSE {[Fail("GET_ACL", 200, "OK") EXCEPT !.acl = defaultAcl(rs[i], userId)] :
          i \in matchVersion(rs, b, k, NoVersion)}

\* Object.entries(tags).map(([key, value]) => ({ key, value }))
objectEntries(tags) ==
  [p \in 1..Len(tags) |-> [key |-> tags[p][1], value |-> tags[p][2]]]

\* the answers of getObjectTags
getObjectTags(bs, rs, b, k, allowed) ==
  IF findBucket(bs, b) = "none"
    THEN {Fail("GET_TAGGING", 404, "BUCKET_NOT_FOUND")}
  ELSE IF ~allowed
    THEN {Fail("GET_TAGGING", 403, "ACCESS_DENIED")}
  ELSE IF matchVersion(rs, b, k, NoVersion) = {}
    THEN {Fail("GET_TAGGING", 404, "OBJECT_NOT_FOUND")}
  ELSE {[Fail("GET_TAGGING", 200, "OK") EXCEPT !.tagSet = objectEntries(rs[i].tags)] :
          i \in matchVersion(rs, b, k, NoVersion)}

(* ------------------------- Access Audit Trail ------------------------- *)
\* the attributes of model AccessLog, and those declared allowNull: false
\* without a default value
AccessLogAttributes ==
  {"userId", "bucketId", "objectId", "action", "resource", "httpMethod",
   "httpStatus", "ipAddress", "userAgent", "requestId", "responseTime",
   "bytesTransferred", "policy", "allowed", "errorCode"}

AccessLogRequired == {"action", "resource", "httpMethod", "httpStatus", "allowed"}

\* AccessLog.create(values): the model's notNull validation, then the INSERT
\* of the declared attributes (dbOk: the database accepts the statement)
AccessLogCreate(logs, values, dbOk) ==
  IF ~(AccessLogRequired \subseteq DOMAIN values)
    THEN [error |-> TRUE, logs |-> logs]
  ELSE IF ~dbOk
    THEN [error |-> TRUE, logs |-> logs]
  ELSE [error |-> FALSE,
        logs |-> Append(logs, [a \in DOMAIN values \cap AccessLogAttributes |-> values[a]])]

\* _logAccess letting the error of the write escape
_logAccess_Throws(logs, userId, action, bucketName, objectKey, status, dbOk) ==
  LET r == AccessLogCreate(logs,
             [userId |-> userId, action |-> action,
              resource |-> <<bucketName, "/", objectKey>>, status |-> status,
              timestamp |-> "now", ipAddress |-> "null", userAgent |-> "null"],
             dbOk)
  IN [logs |-> r.logs, thrown |-> r.error]

\* _logAccess: AccessLog.create inside try/catch, the error only logged
_logAccess(logs, userId, action, bucketName, objectKey, status, dbOk) ==
  LET r == AccessLogCreate(logs,
             [userId |-> userId, action |-> action,
              resource |-> <<bucketName, "/", objectKey>>, status |-> status,
              timestamp |-> "now", ipAddress |-> "null", userAgent |-> "null"],
             dbOk)
  IN [logs |-> r.logs, thrown |-> FALSE]

\* the _logAccess call a handler of ObjectService makes on the way to
\* response r: its action and status arguments, or NoAudit when it makes none
auditCall(r) ==
  CASE r.op \in {"PUT", "COPY"} /\ r.status = 201 ->
         [action |-> "PUT", status |-> "SUCCESS"]
    [] r.op \in {"GET", "DELETE"} /\ r.code = "ACCESS_DENIED" ->
         [action |-> r.op, status |-> "DENIED"]
    [] r.op \in {"GET", "DELETE"} /\ r.code = "OBJECT_NOT_FOUND" ->
         [action |-> r.op, status |-> "NOT_FOUND"]
    [] r.op = "GET" /\ r.status = 200 ->
         [action |-> "GET", status |-> "SUCCESS"]
    [] r.op = "DELETE" /\ r.status = 204 ->
         [action |-> "DELETE", status |-> "SUCCESS"]
    [] r.op = "PUT_ACL" /\ r.status = 200 ->
         [action |-> "PutObjectACL", status |-> "success"]
    [] r.op = "PUT_TAGGING" /\ r.status = 200 ->
         [action |-> "PutObjectTagging", status |-> "success"]
    [] r.op = "GET_ACL" /\ r.status = 200 ->
         [action |-> "GetObjectACL", status |-> "success"]
    [] r.op = "GET_TAGGING" /\ r.status = 200 ->
         [action |-> "GetObjectTagging", status |-> "success"]
    [] OTHER -> [action |-> NoAudit, status |-> NoAudit]

\* the handler's response r and access log once its _logAccess call, if any,
\* has returned
logged(logs, r, b, k, dbOk) ==
  LET c == auditCall(r) IN
  IF c.action = NoAudit
    THEN [logs |-> logs, resp |-> r]
  ELSE LET l == _logAccess(logs, Actor, c.action, b, k, c.status, dbOk) IN
    [logs |-> l.logs,
     resp |-> IF l.thrown THEN Fail(r.op, 500, "INTERNAL_ERROR") ELSE r]

(* --------------------------- BucketService ---------------------------- *)
\* Bucket.create without the unique index on name
insertBucket_NoUniqueIndex(bs, name, versioningEnabled) ==
  [error |-> FALSE,
   buckets |-> [bs EXCEPT ![name] =
                  [state |-> "live", copies |-> bs[name].copies + 1,
                   versioningEnabled |-> versioningEnabled,
                   policy |-> Unset, corsConfiguration |-> Unset]]]

\* Bucket.create({ name, ... }): INSERT under the unique index on name, which
\* a live or a soft-deleted row holding the name makes fail
insertBucket(bs, name, versioningEnabled) ==
  IF bs[name].copies > 0
    THEN [error |-> TRUE, buckets |-> bs]
  ELSE [error |-> FALSE,
        buckets |-> [bs EXCEPT ![name] =
                       [state |-> "live", copies |-> bs[name].copies + 1,
                        versioningEnabled |-> versioningEnabled,
                        policy |-> Unset, corsConfiguration |-> Unset]]]

\* every name of BucketNames passes validateBucketName
createBucket(bs, name, versioningEnabled) ==
  IF findBucket(bs, name) # "none"
    THEN [buckets |-> bs, status |-> 409, code |-> "BUCKET_ALREADY_EXISTS"]
  ELSE LET r == insertBucket(bs, name, versioningEnabled) IN
    IF r.error
      THEN [buckets |-> bs, status |-> 500, code |-> "DATABASE_ERROR"]
    ELSE [buckets |-> r.buckets, status |-> 201, code |-> "CREATED"]

deleteBucket(bs, rs, name, allowed) ==
  IF findBucket(bs, name) = "none"
    THEN [buckets |-> bs, status |-> 404, code |-> "BUCKET_NOT_FOUND"]
  ELSE IF ~allowed
    THEN [buckets |-> bs, status |-> 403, code |-> "ACCESS_DENIED"]
  ELSE LET q == whereBucketName(rs, name) IN
    IF q.error
      THEN [buckets |-> bs, status |-> 500, code |-> "DATABASE_ERROR"]
    ELSE IF Cardinality(q.found) > 0
      THEN [buckets |-> bs, status |-> 409, code |-> "BUCKET_NOT_EMPTY"]
    ELSE [buckets |-> [bs EXCEPT ![name].state = "deleted"],
          status |-> 204, code |-> "NO_CONTENT"]

updateBucketVersioning(bs, name, enabled, allowed) ==
  IF findBucket(bs, name) = "none"
    THEN [buckets |-> bs, status |-> 404, code |-> "BUCKET_NOT_FOUND"]
  ELSE IF ~allowed
    THEN [buckets |-> bs, status |-> 403, code |-> "ACCESS_DENIED"]
  ELSE [buckets |-> [bs EXCEPT ![name].versioningEnabled = enabled],
        status |-> 200, code |-> "OK"]

\* updateBucketPolicy saving the policy ahead of the permission check
updateBucketPolicy_SaveFirst(bs, name, policy, allowed) ==
  IF findBucket(bs, name) = "none"
    THEN [buckets |-> bs, status |-> 404, code |-> "BUCKET_NOT_FOUND"]
  ELSE IF ~allowed
    THEN [buckets |-> [bs EXCEPT ![name].policy = policy],
          status |-> 403, code |-> "ACCESS_DENIED"]
  ELSE [buckets |-> [bs EXCEPT ![name].policy = policy],
        status |-> 200, code |-> "OK"]

\* findOne, checkPermission, then bucket.policy = policy; bucket.save()
updateBucketPolicy(bs, name, policy, allowed) ==
  IF findBucket(bs, name) = "none"
    THEN [buckets |-> bs, status |-> 404, code |-> "BUCKET_NOT_FOUND"]
  ELSE IF ~allowed
    THEN [buckets |-> bs, status |-> 403, code |-> "ACCESS_DENIED"]
  ELSE [buckets |-> [bs EXCEPT ![name].policy = policy],
        status |-> 200, code |-> "OK"]

updateBucketCors(bs, name, corsConfiguration, allowed) ==
  IF findBucket(bs, name) = "none"
    THEN [buckets |-> bs, status |-> 404, code |-> "BUCKET_NOT_FOUND"]
  ELSE IF ~allowed
    THEN [buckets |-> bs, status |-> 403, code |-> "ACCESS_DENIED"]
  ELSE [buckets |-> [bs EXCEPT ![name].corsConfiguration = corsConfiguration],
        status |-> 200, code |-> "OK"]

(* ----------------------- Authorization Gateway ------------------------ *)
\* what the policy evaluation of IAMClient.checkPermission can answer
PolicyAnswers ==
  {[allowed |-> TRUE, reason |-> "Permission granted by policy"],
   [allowed |-> FALSE, reason |-> "Permission denied by policy"]}

\* iamService.checkPermission(userId, action, resource, context): the
\* client's answer, or, when the call to the gateway fails (reachable is
\* false), a denial with reason 'IAM service error'
checkPermission(action, resource, answer, reachable) ==
  IF reachable
    THEN [allowed |-> answer.allowed, reason |-> answer.reason,
          action |-> action, resource |-> resource]
  ELSE [allowed |-> FALSE, reason |-> "IAM service error",
        action |-> action, resource |-> resource]

\* a resource string is the sequence of its parts; ":bucketName" and ":key"
\* are the placeholders of the path parameters
pathParams(b, k) == [name \in {":bucketName", ":key"} |->
                       IF name = ":bucketName" THEN b ELSE k]

\* substituteParams: each ":name" of the resource replaced by the parameter
substituteParams(resource, params) ==
  [i \in 1..Len(resource) |->
     IF resource[i] \in DOMAIN params THEN params[resource[i]] ELSE resource[i]]

\* the resource the routes hand to authorize(action, resource, ...): the
\* second argument, a literal; requirePermission takes two parameters, so
\* the function given third is not looked at
ObjectResource == <<"object">>

BucketResource == <<"bucket">>

\* requirePermission(action, resource) for an authenticated request: the
\* answer 403 PERMISSION_DENIED carrying the decision's reason and the
\* resource, or next()
requirePermission(op, action, resource, params, answer, reachable) ==
  LET targetResource == substituteParams(resource, params)
      decision == checkPermission(action, targetResource, answer, reachable)
  IN IF ~decision.allowed
       THEN [next |-> FALSE,
             resp |-> [Fail(op, 403, "PERMISSION_DENIED")
                         EXCEPT !.reason = decision.reason,
                                !.resource = targetResource]]
     ELSE [next |-> TRUE, resp |-> Fail(op, 0, "NONE")]

(* ------------------- requests, one action per handler ----------------- *)
Idle == \A p \in Procs : tasks[p].pc = "idle"

InFlight == Cardinality({p \in Procs : tasks[p].pc # "idle"})

CreateBucket(name, versioningEnabled) ==
  LET o == createBucket(buckets, name, versioningEnabled) IN
  /\ buckets' = o.buckets
  /\ resp' = Fail("CREATE_BUCKET", o.status, o.code)
  /\ UNCHANGED <<rows, blobs, tasks, accessLogs>>

DeleteBucket(name, allowed) ==
  LET o == deleteBucket(buckets, rows, name, allowed) IN
  /\ buckets' = o.buckets
  /\ resp' = Fail("DELETE_BUCKET", o.status, o.code)
  /\ UNCHANGED <<rows, blobs, tasks, accessLogs>>

UpdateBucketVersioning(name, enabled, allowed) ==
  LET o == updateBucketVersioning(buckets, name, enabled, allowed) IN
  /\ buckets' = o.buckets
  /\ resp' = Fail("PUT_VERSIONING", o.status, o.code)
  /\ UNCHANGED <<rows, blobs, tasks, accessLogs>>

\* the service call with its _logAccess: o is what the handler did before it
Complete(o, b, k) ==
  /\ rows' = o.rows
  /\ blobs' = o.blobs
  /\ \E dbOk \in BOOLEAN :
       LET l == logged(accessLogs, o.resp, b, k, dbOk) IN
         /\ accessLogs' = l.logs
         /\ resp' = l.resp

\* controller uploadObject (req.file of Files carrying the bytes), then the service
UploadObject(b, k, data, allowed) ==
  /\ Len(rows) + InFlight < MaxVersions
  /\ \E f \in Files :
       /\ f.buffer = data
       /\ Complete(uploadObject(buckets, rows, blobs, "PUT", b, k, f.buffer,
                                [contentType |-> f.mimetype,
                                 userMetadata |-> parseUserMetadata(f.metadata)],
                                allowed), b, k)
  /\ UNCHANGED <<buckets, tasks>>

DownloadObject(b, k, vid, allowed) ==
  /\ \E r \in downloadObject(buckets, rows, blobs, b, k, vid, allowed) :
       Complete(Outcome(rows, blobs, r), b, k)
  /\ UNCHANGED <<buckets, tasks>>

GetObjectMetadata(b, k, vid, allowed) ==
  /\ resp' \in getObjectMetadata(buckets, rows, b, k, vid, allowed)
  /\ UNCHANGED <<buckets, rows, blobs, tasks, accessLogs>>

DeleteObject(b, k, vid, allowed) ==
  /\ Complete(deleteObjectService(buckets, rows, blobs, b, k, vid, allowed), b, k)
  /\ UNCHANGED <<buckets, tasks>>

\* controller copyObject: rejects source = destination, then the service
CopyObject(sb, sk, db, dk, allowedRead, allowedWrite) ==
  /\ Len(rows) + InFlight < MaxVersions
  /\ IF sb = db /\ sk = dk
       THEN /\ resp' = Fail("COPY", 400, "SAME_SOURCE_DEST")
            /\ UNCHANGED <<rows, blobs, accessLogs>>
     ELSE \E o \in copyObject(buckets, rows, blobs, sb, sk, db, dk,
                               allowedRead, allowedWrite) :
            Complete(o, db, dk)
  /\ UNCHANGED <<buckets, tasks>>

\* ObjectService.copyObject called with no controller in front of it
CopyObjectService(sb, sk, db, dk, allowedRead, allowedWrite) ==
  /\ Len(rows) + InFlight < MaxVersions
  /\ \E o \in copyObject(buckets, rows, blobs, sb, sk, db, dk,
                          allowedRead, allowedWrite) :
       Complete(o, db, dk)
  /\ UNCHANGED <<buckets, tasks>>

VersionIds == 0..MaxVersions

Next ==
  \/ \E n \in BucketNames, v \in BOOLEAN : CreateBucket(n, v)
  \/ \E n \in BucketNames, a \in BOOLEAN : DeleteBucket(n, a)
  \/ \E n \in BucketNames, e \in BOOLEAN, a \in BOOLEAN : UpdateBucketVersioning(n, e, a)
  \/ \E b \in BucketNames, k \in Keys, d \in Payloads, a \in BOOLEAN : UploadObject(b, k, d, a)
  \/ \E b \in BucketNames, k \in Keys, v \in VersionIds, a \in BOOLEAN : DownloadObject(b, k, v, a)
  \/ \E b \in BucketNames, k \in Keys, v \in VersionIds, a \in BOOLEAN : GetObjectMetadata(b, k, v, a)
  \/ \E b \in BucketNames, k \in Keys, v \in VersionIds, a \in BOOLEAN : DeleteObject(b, k, v, a)
  \/ \E sb \in BucketNames, sk \in Keys, db \in BucketNames, dk \in Keys,
        ar \in BOOLEAN, aw \in BOOLEAN : CopyObject(sb, sk, db, dk, ar, aw)

Spec == Init /\ [][Next]_vars

\* the methods of the services as the entry points
NextService ==
  \/ \E n \in BucketNames, v \in BOOLEAN : CreateBucket(n, v)
  \/ \E n \in BucketNames, e \in BOOLEAN, a \in BOOLEAN : UpdateBucketVersioning(n, e, a)
  \/ \E b \in BucketNames, k \in Keys, d \in Payloads, a \in BOOLEAN : UploadObject(b, k, d, a)
  \/ \E b \in BucketNames, k \in Keys, v \in VersionIds, a \in BOOLEAN : DeleteObject(b, k, v, a)
  \/ \E sb \in BucketNames, sk \in Keys, db \in BucketNames, dk \in Keys,
        ar \in BOOLEAN, aw \in BOOLEAN : CopyObjectService(sb, sk, db, dk, ar, aw)

SpecService == Init /\ [][NextService]_vars

(* ------- the handlers that change state, behind the permission check ------- *)
\* request bodies of the bucket policy and CORS updates
PolicyInputs == {"policy-1"}

CorsInputs == {"cors-1"}

UpdateBucketPolicy(name, policy, allowed) ==
  LET o == updateBucketPolicy(buckets, name, policy, allowed) IN
  /\ buckets' = o.buckets
  /\ resp' = Fail("PUT_POLICY", o.status, o.code)
  /\ UNCHANGED <<rows, blobs, tasks, accessLogs>>

UpdateBucketCors(name, corsConfiguration, allowed) ==
  LET o == updateBucketCors(buckets, name, corsConfiguration, allowed) IN
  /\ buckets' = o.buckets
  /\ resp' = Fail("PUT_CORS", o.status, o.code)
  /\ UNCHANGED <<rows, blobs, tasks, accessLogs>>

UpdateObjectAcl(b, k, grants, allowed) ==
  /\ \E o \in updateObjectAcl(buckets, rows, blobs, b, k, grants, allowed) :
       Complete(o, b, k)
  /\ UNCHANGED <<buckets, tasks>>

UpdateObjectTags(b, k, tagSet, allowed) ==
  /\ \E o \in updateObjectTags(buckets, rows, blobs, b, k, tagSet, allowed) :
       Complete(o, b, k)
  /\ UNCHANGED <<buckets, tasks>>

\* the uploads of this specification carry one body; its ACL, policy and CORS
\* requests are the ones the oracle refuses (no handler modelled here reads
\* the three attributes)
AuthzPayloads == {<<1>>}

Refusals == {FALSE}

NextAuthz ==
  \/ \E n \in BucketNames, v \in BOOLEAN : CreateBucket(n, v)
  \/ \E n \in BucketNames, a \in BOOLEAN : DeleteBucket(n, a)
  \/ \E n \in BucketNames, e \in BOOLEAN, a \in BOOLEAN : UpdateBucketVersioning(n, e, a)
  \/ \E n \in BucketNames, p \in PolicyInputs, a \in Refusals : UpdateBucketPolicy(n, p, a)
  \/ \E n \in BucketNames, c \in CorsInputs, a \in Refusals : UpdateBucketCors(n, c, a)
  \/ \E b \in BucketNames, k \in Keys, d \in AuthzPayloads, a \in BOOLEAN : UploadObject(b, k, d, a)
  \/ \E b \in BucketNames, k \in Keys, v \in VersionIds, a \in BOOLEAN : DeleteObject(b, k, v, a)
  \/ \E sb \in BucketNames, sk \in Keys, db \in BucketNames, dk \in Keys,
        ar \in BOOLEAN, aw \in BOOLEAN : CopyObject(sb, sk, db, dk, ar, aw)
  \/ \E b \in BucketNames, k \in Keys, g \in GrantsInputs, a \in Refusals : UpdateObjectAcl(b, k, g, a)
  \/ \E b \in BucketNames, k \in Keys, t \in TagSetInputs, a \in BOOLEAN : UpdateObjectTags(b, k, t, a)

SpecAuthz == Init /\ [][NextAuthz]_vars

(* ------------------ the ACL and the tags of an object ----------------- *)
\* request bodies of the tagging update beyond TagSetInputs: a key given
\* twice, two keys, a value left empty
TagSetBodies ==
  TagSetInputs \cup
  {[array |-> TRUE, items |-> <<[key |-> "env", value |-> "prod"],
                                [key |-> "env", value |-> "dev"]>>],
   [array |-> TRUE, items |-> <<[key |-> "team", value |-> "core"],
                                [key |-> "env", value |-> "dev"]>>],
   [array |-> TRUE, items |-> <<[key |-> "env", value |-> ""]>>]}

\* getObjectAcl asked by userId; the _logAccess call is the one of Complete
GetObjectAcl(b, k, userId, allowed) ==
  /\ \E r \in getObjectAcl(buckets, rows, b, k, userId, allowed) :
       Complete(Outcome(rows, blobs, r), b, k)
  /\ UNCHANGED <<buckets, tasks>>

GetObjectTags(b, k, allowed) ==
  /\ \E r \in getObjectTags(buckets, rows, b, k, allowed) :
       Complete(Outcome(rows, blobs, r), b, k)
  /\ UNCHANGED <<buckets, tasks>>

NextAcl ==
  \/ \E n \in BucketNames, v \in BOOLEAN : CreateBucket(n, v)
  \/ \E b \in BucketNames, k \in Keys, d \in AuthzPayloads, a \in BOOLEAN : UploadObject(b, k, d, a)
  \/ \E b \in BucketNames, k \in Keys, g \in GrantsInputs, a \in BOOLEAN : UpdateObjectAcl(b, k, g, a)
  \/ \E b \in BucketNames, k \in Keys, u \in Users, a \in BOOLEAN : GetObjectAcl(b, k, u, a)

SpecAcl == Init /\ [][NextAcl]_vars

NextTags ==
  \/ \E n \in BucketNames, v \in BOOLEAN : CreateBucket(n, v)
  \/ \E b \in BucketNames, k \in Keys, d \in AuthzPayloads, a \in BOOLEAN : UploadObject(b, k, d, a)
  \/ \E b \in BucketNames, k \in Keys, t \in TagSetBodies, a \in BOOLEAN : UpdateObjectTags(b, k, t, a)
  \/ \E b \in BucketNames, k \in Keys, a \in BOOLEAN : GetObjectTags(b, k, a)

SpecTags == Init /\ [][NextTags]_vars

\* ACL and tag requests together: the well-formed bodies
AttrGrants == {g \in GrantsInputs : isArray(g)}
AttrTagSets == {t \in TagSetInputs :
                  isArray(t) /\ \A i \in 1..Len(t.items) : t.items[i].key # ""}

NextAttrs ==
  \/ \E n \in BucketNames, v \in BOOLEAN : CreateBucket(n, v)
  \/ \E b \in BucketNames, k \in Keys, d \in AuthzPayloads, a \in BOOLEAN : UploadObject(b, k, d, a)
  \/ \E b \in BucketNames, k \in Keys, g \in AttrGrants, a \in BOOLEAN : UpdateObjectAcl(b, k, g, a)
  \/ \E b \in BucketNames, k \in Keys, t \in AttrTagSets, a \in BOOLEAN : UpdateObjectTags(b, k, t, a)
  \/ \E b \in BucketNames, k \in Keys, a \in BOOLEAN : GetObjectAcl(b, k, Actor, a)
  \/ \E b \in BucketNames, k \in Keys, a \in BOOLEAN : GetObjectTags(b, k, a)

SpecAttrs == Init /\ [][NextAttrs]_vars

(* ------------------ the Physical Store and its paths ----------------- *)
\* the files the calls of this specification can name
ObjectPaths ==
  {_getObjectPath(_generateStorageKey(b, k)) : b \in BucketNames, k \in PathKeys}

InitStore ==
  /\ buckets = [n \in BucketNames |-> NoBucket]
  /\ rows = <<>>
  /\ blobs = [p \in ObjectPaths |-> NoBlob]
  /\ resp = Fail("NONE", 0, "NONE")
  /\ tasks = [p \in Procs |-> IdleTask]
  /\ accessLogs = <<>>

\* StorageProvider.putObject(bucketName, objectKey, data) with a Buffer
StorePut(b, k, data) ==
  LET objectPath == _getObjectPath(_generateStorageKey(b, k)) IN
  /\ blobs' = [blobs EXCEPT ![objectPath] =
                 [present |-> TRUE, data |-> data,
                  meta |-> [present |-> TRUE, size |-> Len(data),
                            etag |-> _calculateHash(data)]]]
  /\ resp' = Response("STORE_PUT", 200, "OK", EmptyData, _calculateHash(data),
                      Len(data), NoVersion)
  /\ UNCHANGED <<buckets, rows, tasks, accessLogs>>

\* StorageProvider.getObject(bucketName, objectKey): fs.access, the sidecar
\* read with its catch, metadata.size || 0 and metadata.etag || ''
StoreGet(b, k) ==
  LET f == blobs[_getObjectPath(_generateStorageKey(b, k))] IN
  /\ resp' = IF ~f.present THEN Fail("STORE_GET", 404, "OBJECT_NOT_FOUND")
             ELSE Response("STORE_GET", 200, "OK", f.data,
                           IF f.meta.present THEN f.meta.etag ELSE NoEtag,
                           IF f.meta.present THEN f.meta.size ELSE 0, NoVersion)
  /\ UNCHANGED <<buckets, rows, blobs, tasks, accessLogs>>

\* StorageProvider.getObjectMetadata(bucketName, objectKey): the parsed
\* sidecar, or the error thrown when it cannot be read
StoreGetMetadata(b, k) ==
  LET f == blobs[_getObjectPath(_generateStorageKey(b, k))] IN
  /\ resp' = IF ~f.present \/ ~f.meta.present
               THEN Fail("STORE_HEAD", 500, "OBJECT_METADATA_NOT_FOUND")
             ELSE Response("STORE_HEAD", 200, "OK", EmptyData, f.meta.etag,
                           f.meta.size, NoVersion)
  /\ UNCHANGED <<buckets, rows, blobs, tasks, accessLogs>>

\* StorageProvider.deleteObject(bucketName, objectKey)
StoreDelete(b, k) ==
  /\ blobs' = [blobs EXCEPT ![_getObjectPath(_generateStorageKey(b, k))] = NoBlob]
  /\ resp' = Fail("STORE_DELETE", 200, "OK")
  /\ UNCHANGED <<buckets, rows, tasks, accessLogs>>

NextStore ==
  \/ \E b \in BucketNames, k \in PathKeys, d \in Payloads : StorePut(b, k, d)
  \/ \E b \in BucketNames, k \in PathKeys : StoreGet(b, k)
  \/ \E b \in BucketNames, k \in PathKeys : StoreDelete(b, k)

SpecStore == InitStore /\ [][NextStore]_vars

(* ------------- the Physical Store as the files it writes ------------- *)
\* every object is two files: the blob at objectPath and the sidecar at
\* `${objectPath}.meta`; the keys here are "k1", "k1.meta" and "dir/k1"
FileKeys == {<<"k1">>, <<"k1.meta">>, <<"dir", "k1">>}

\* `${name}.meta` for the file names that occur
dotMeta == [name \in {"k1", "k1.meta"} |->
              IF name = "k1" THEN "k1.meta" ELSE "k1.meta.meta"]

\* entry.name.endsWith('.meta')
endsWithMeta(name) == name \in {"k1.meta", "k1.meta.meta"}

objectPathOf(b, k) == _getObjectPath(_generateStorageKey(b, k))

\* const metadataPath = `${objectPath}.meta`
metadataPathOf(objectPath) ==
  [objectPath EXCEPT ![Len(objectPath)] = dotMeta[objectPath[Len(objectPath)]]]

FilePaths ==
  UNION {{objectPathOf(b, k), metadataPathOf(objectPathOf(b, k))} :
           b \in BucketNames, k \in FileKeys}

\* JSON.stringify(fullMetadata): the text of a sidecar, told from the bytes
\* of the uploads (1, 2, 3) by its first character
stringify(size, etag) == <<0, size, etag>>

\* JSON.parse of the content of a file, NoMeta when it throws
parse(content) ==
  IF Len(content) = 3 /\ content[1] = 0
    THEN [present |-> TRUE, size |-> content[2], etag |-> content[3]]
  ELSE NoMeta

\* what getObject hands out for (b, k): the content of the blob file and the
\* parsed sidecar
fileRead(files, b, k) ==
  LET f == files[objectPathOf(b, k)]
      m == files[metadataPathOf(objectPathOf(b, k))]
  IN IF ~f.present THEN [present |-> FALSE, data |-> EmptyData, meta |-> NoMeta]
     ELSE [present |-> TRUE, data |-> f.data,
           meta |-> IF m.present THEN parse(m.data) ELSE NoMeta]

\* listObjects(bucketName, { delimiter: '' }): the files under the bucket
\* directory whose name does not end with '.meta', by their relative paths
fileList(files, b) ==
  {SubSeq(path, Len(basePath) + 2, Len(path)) :
     path \in {q \in FilePaths : /\ files[q].present
                                 /\ SubSeq(q, 1, Len(basePath) + 1) = basePath \o <<b>>
                                 /\ ~endsWithMeta(q[Len(q)])}}

InitFiles ==
  /\ buckets = [n \in BucketNames |-> NoBucket]
  /\ rows = <<>>
  /\ blobs = [p \in FilePaths |-> [present |-> FALSE, data |-> EmptyData]]
  /\ resp = Fail("NONE", 0, "NONE")
  /\ tasks = [p \in Procs |-> IdleTask]
  /\ accessLogs = <<>>

\* putObject: the two fs.writeFile
FilePut(b, k, data) ==
  LET objectPath == objectPathOf(b, k) IN
  /\ blobs' = [blobs EXCEPT
                 ![objectPath] = [present |-> TRUE, data |-> data],
                 ![metadataPathOf(objectPath)] =
                    [present |-> TRUE,
                     data |-> stringify(Len(data), _calculateHash(data))]]
  /\ resp' = Response("STORE_PUT", 200, "OK", EmptyData, _calculateHash(data),
                      Len(data), NoVersion)
  /\ UNCHANGED <<buckets, rows, tasks, accessLogs>>

\* getObject
FileGet(b, k) ==
  LET r == fileRead(blobs, b, k) IN
  /\ resp' = IF ~r.present THEN Fail("STORE_GET", 404, "OBJECT_NOT_FOUND")
             ELSE Response("STORE_GET", 200, "OK", r.data,
                           IF r.meta.present THEN r.meta.etag ELSE NoEtag,
                           IF r.meta.present THEN r.meta.size ELSE 0, NoVersion)
  /\ UNCHANGED <<buckets, rows, blobs, tasks, accessLogs>>

\* deleteObject: the two fs.unlink
FileDelete(b, k) ==
  LET objectPath == objectPathOf(b, k) IN
  /\ blobs' = [blobs EXCEPT
                 ![objectPath] = [present |-> FALSE, data |-> EmptyData],
                 ![metadataPathOf(objectPath)] = [present |-> FALSE, data |-> EmptyData]]
  /\ resp' = Fail("STORE_DELETE", 200, "OK")
  /\ UNCHANGED <<buckets, rows, tasks, accessLogs>>

NextFiles ==
  \/ \E b \in BucketNames, k \in FileKeys, d \in AuthzPayloads : FilePut(b, k, d)
  \/ \E b \in BucketNames, k \in FileKeys : FileGet(b, k)
  \/ \E b \in BucketNames, k \in FileKeys : FileDelete(b, k)

SpecFiles == InitFiles /\ [][NextFiles]_vars

(* ----------------------- bucket-name validators ---------------------- *)
\* a name is the sequence of its characters
LowerAlnum == {"a", "b", "z", "0", "1", "2", "6", "8", "9"}
Digit == {"0", "1", "2", "6", "8", "9"}

\* String.prototype.includes
includes(name, sub) ==
  \E i \in 1..(Len(name) - Len(sub) + 1) : SubSeq(name, i, i + Len(sub) - 1) = sub

\* /^[a-z0-9][a-z0-9\-]*[a-z0-9]$/
bucketNameRegex(name) ==
  /\ Len(name) >= 2
  /\ name[1] \in LowerAlnum
  /\ name[Len(name)] \in LowerAlnum
  /\ \A i \in 2..(Len(name) - 1) : name[i] \in LowerAlnum \cup {"-"}

\* four groups of digits between three dots: /^\d{1,3}\.\d{1,3}\.\d{1,3}\.\d{1,3}$/
\* with maxDigits = 3, /^\d+\.\d+\.\d+\.\d+$/ with maxDigits = 0
ipRegex(name, maxDigits) ==
  /\ name # <<>>
  /\ \A i \in DOMAIN name : name[i] \in Digit \cup {"."}
  /\ Cardinality({i \in DOMAIN name : name[i] = "."}) = 3
  /\ name[1] # "." /\ name[Len(name)] # "." /\ ~includes(name, <<".", ".">>)
  /\ maxDigits > 0 =>
       \A i \in 1..(Len(name) - maxDigits) :
         \E j \in i..(i + maxDigits) : name[j] = "."

\* helpers.validateBucketName, the check of the BucketService
validateBucketName(name) ==
  IF name = <<>> \/ Len(name) < 3 \/ Len(name) > 63 THEN FALSE
  ELSE IF ~bucketNameRegex(name) THEN FALSE
  ELSE IF includes(name, <<".", ".">>) \/ includes(name, <<"-", "-">>) THEN FALSE
  ELSE IF ipRegex(name, 3) THEN FALSE
  ELSE TRUE

\* commonSchemas.bucketName: Joi.string().min(3).max(63).pattern(...).required()
commonSchemas_bucketName(name) ==
  /\ name # <<>>
  /\ Len(name) >= 3
  /\ Len(name) <= 63
  /\ bucketNameRegex(name)

\* StorageUtils.validateBucketName: TRUE when it returns, FALSE when it throws
StorageUtils_validateBucketName(name) ==
  IF name = <<>> THEN FALSE
  ELSE IF Len(name) < 3 \/ Len(name) > 63 THEN FALSE
  ELSE IF \E i \in DOMAIN name : name[i] \notin LowerAlnum \cup {".", "-"} THEN FALSE
  ELSE IF name[1] \notin LowerAlnum \/ name[Len(name)] \notin LowerAlnum THEN FALSE
  ELSE IF ipRegex(name, 0) THEN FALSE
  ELSE IF includes(name, <<".", ".">>) THEN FALSE
  ELSE IF includes(name, <<".", "-">>) \/ includes(name, <<"-", ".">>) THEN FALSE
  ELSE TRUE

\* the names submitted: a first character, a repeated middle, a last
\* character, at the lengths around the two limits; and IPv4 literals
NameLengths == {2, 3, 63, 64}
nameOf(head, middle, tail, n) ==
  [i \in 1..n |-> IF i = 1 THEN head
                  ELSE IF i = n THEN tail
                  ELSE middle[((i - 2) % Len(middle)) + 1]]
NameInputs ==
  {nameOf(h, m, t, n) : h \in {"a", "1", "-"}, t \in {"a", "1", "-"},
                        m \in {<<"a">>, <<"-">>, <<"a", "-">>, <<"a", ".">>, <<"A">>},
                        n \in NameLengths}
  \cup {<<"1", "9", "2", ".", "1", "6", "8", ".", "1", ".", "1">>,
         <<"1", ".", "1", ".", "1", ".", "1">>,
         <<"1", "0", ".", "0", ".", "0", ".", "1">>}

InitNames ==
  /\ buckets = [n \in BucketNames |-> NoBucket]
  /\ rows = <<>>
  /\ blobs = [p \in BucketNames \X Keys |-> NoBlob]
  /\ \E name \in NameInputs : resp = [Fail("NONE", 0, "NONE") EXCEPT !.resource = name]
  /\ tasks = [p \in Procs |-> IdleTask]
  /\ accessLogs = <<>>

\* the three validators applied to the submitted name
Validated(op, valid) ==
  /\ resp' = [resp EXCEPT !.op = op,
                          !.status = IF valid THEN 200 ELSE 400,
                          !.code = IF valid THEN "OK" ELSE "INVALID_BUCKET_NAME"]
  /\ UNCHANGED <<buckets, rows, blobs, tasks, accessLogs>>

ValidateBucketName == Validated("HELPERS", validateBucketName(resp.resource))
ValidateParams == Validated("JOI", commonSchemas_bucketName(resp.resource))
StorageValidateBucketName ==
  Validated("STORAGE_UTILS", StorageUtils_validateBucketName(resp.resource))

NextNames == ValidateBucketName \/ ValidateParams \/ StorageValidateBucketName

SpecNames == InitNames /\ [][NextNames]_vars

(* ----------------------------- listings ------------------------------ *)
\* req.query of the listing: prefix and marker ('' when absent), maxKeys
\* (1000 when absent), versions, delimiter ('' when absent)
ListOptions ==
  [prefix : {<<>>, <<"a">>, <<"a", "_">>},
   marker : {<<>>, <<"a">>},
   maxKeys : {1, 2, 1000},
   versions : BOOLEAN,
   delimiter : {"", "/"}]

\* the buckets start empty, their objects named by the keys of the listings
InitList ==
  /\ buckets = [n \in BucketNames |-> NoBucket]
  /\ rows = <<>>
  /\ blobs = [p \in BucketNames \X ListKeys |-> NoBlob]
  /\ resp = Fail("NONE", 0, "NONE")
  /\ tasks = [p \in Procs |-> IdleTask]
  /\ accessLogs = <<>>

ListObjects(b, o, allowed) ==
  /\ resp' \in listObjectsWith(buckets, rows, b, o, allowed)
  /\ UNCHANGED <<buckets, rows, blobs, tasks, accessLogs>>

NextList ==
  \/ \E n \in BucketNames, v \in BOOLEAN : CreateBucket(n, v)
  \/ \E b \in BucketNames, k \in ListKeys, d \in AuthzPayloads, a \in BOOLEAN : UploadObject(b, k, d, a)
  \/ \E b \in BucketNames, o \in ListOptions, a \in BOOLEAN : ListObjects(b, o, a)

SpecList == InitList /\ [][NextList]_vars

\* --- listings with a delimiter: one bucket, keys under one folder ---
FoldBuckets == {"b1"}
FoldKeys == {<<"a">>, <<"a", "/", "a">>, <<"a", "/", "b">>}
FoldOptions ==
  [prefix : {<<>>, <<"a">>},
   marker : {<<>>, <<"a">>},
   maxKeys : {1, 2, 1000},
   versions : BOOLEAN,
   delimiter : {"/"}]

InitFold ==
  /\ buckets = [n \in BucketNames |-> NoBucket]
  /\ rows = <<>>
  /\ blobs = [p \in BucketNames \X FoldKeys |-> NoBlob]
  /\ resp = Fail("NONE", 0, "NONE")
  /\ tasks = [p \in Procs |-> IdleTask]
  /\ accessLogs = <<>>

NextFold ==
  \/ \E n \in FoldBuckets, v \in BOOLEAN : CreateBucket(n, v)
  \/ \E b \in FoldBuckets, k \in FoldKeys, d \in Payloads, a \in BOOLEAN : UploadObject(b, k, d, a)
  \/ \E b \in FoldBuckets, o \in FoldOptions, a \in BOOLEAN : ListObjects(b, o, a)

SpecFold == InitFold /\ [][NextFold]_vars

\* --- a listing taken page by page ---
PageKeys == {<<"a">>, <<"a", "b">>}
PageSizes == {1, 2}

\* the first request of a client that lists bucket b: no marker
PageBegin(p, b, maxKeys, versions) ==
  /\ tasks[p].pc = "idle"
  /\ InFlight = 0
  /\ tasks' = [tasks EXCEPT ![p] =
       [pc |-> "page", bucket |-> b, marker |-> <<>>, maxKeys |-> maxKeys,
        versions |-> versions, keys |-> <<>>]]
  /\ UNCHANGED <<buckets, rows, blobs, resp, accessLogs>>

\* one page: listObjects with the marker held; the keys of its contents are
\* kept, and nextMarker is the marker of the next request while the page is
\* truncated
PageNext(p) ==
  /\ tasks[p].pc = "page"
  /\ \E r \in listObjectsWith(buckets, rows, tasks[p].bucket,
                                [prefix |-> <<>>, marker |-> tasks[p].marker,
                                 maxKeys |-> tasks[p].maxKeys,
                                 versions |-> tasks[p].versions, delimiter |-> ""],
                                TRUE) :
       /\ resp' = r
       /\ tasks' = IF r.status # 200 THEN [tasks EXCEPT ![p] = IdleTask]
                   ELSE [tasks EXCEPT
                           ![p].keys = tasks[p].keys \o
                              [q \in 1..Len(r.list.contents) |-> r.list.contents[q].key],
                           ![p].marker = r.list.nextMarker,
                           ![p].pc = IF r.list.isTruncated THEN "page" ELSE "done"]
  /\ UNCHANGED <<buckets, rows, blobs, accessLogs>>

\* the client is done with its listing
PageEnd(p) ==
  /\ tasks[p].pc = "done"
  /\ tasks' = [tasks EXCEPT ![p] = IdleTask]
  /\ UNCHANGED <<buckets, rows, blobs, resp, accessLogs>>

InitPage ==
  /\ buckets = [n \in BucketNames |-> NoBucket]
  /\ rows = <<>>
  /\ blobs = [p \in BucketNames \X PageKeys |-> NoBlob]
  /\ resp = Fail("NONE", 0, "NONE")
  /\ tasks = [p \in Procs |-> IdleTask]
  /\ accessLogs = <<>>

\* no write happens while a listing is under way
NextPage ==
  \/ \E n \in FoldBuckets, v \in BOOLEAN : InFlight = 0 /\ CreateBucket(n, v)
  \/ \E b \in FoldBuckets, k \in PageKeys, d \in AuthzPayloads, a \in BOOLEAN :
        InFlight = 0 /\ UploadObject(b, k, d, a)
  \/ \E p \in Procs, b \in FoldBuckets, m \in PageSizes, v \in BOOLEAN : PageBegin(p, b, m, v)
  \/ \E p \in Procs : PageNext(p)
  \/ \E p \in Procs : PageEnd(p)

SpecPage == InitPage /\ [][NextPage]_vars

(* --------- the handlers that write to the Access Audit Trail --------- *)
NextAudit ==
  \/ \E n \in BucketNames, v \in BOOLEAN : CreateBucket(n, v)
  \/ \E b \in BucketNames, k \in Keys, d \in Payloads, a \in BOOLEAN : UploadObject(b, k, d, a)
  \/ \E b \in BucketNames, k \in Keys, v \in VersionIds, a \in BOOLEAN : DownloadObject(b, k, v, a)
  \/ \E b \in BucketNames, k \in Keys, v \in VersionIds, a \in BOOLEAN : DeleteObject(b, k, v, a)

SpecAudit == Init /\ [][NextAudit]_vars

(* ------------- requests through the middleware of the routes --------- *)
\* the middleware has answered; the controller is not reached
Refused(mw) ==
  /\ resp' = mw.resp
  /\ UNCHANGED <<buckets, rows, blobs, tasks, accessLogs>>

bucketParams(n) == [name \in {":bucketName"} |-> n]

\* req.params of POST /, whose bucket name travels in the body
NoParams == <<>>

\* answer: what the policy says of the caller and the action; up1, up2: the
\* gateway can be reached by the middleware's call and by the service's call
HttpCreateBucket(n, v, answer, up1) ==
  LET mw == requirePermission("CREATE_BUCKET", "create", BucketResource,
                              NoParams, answer, up1)
  IN IF ~mw.next THEN Refused(mw) ELSE CreateBucket(n, v)

HttpUpdateBucketVersioning(n, e, answer, up1, up2) ==
  LET mw == requirePermission("PUT_VERSIONING", "write", BucketResource,
                              bucketParams(n), answer, up1)
  IN IF ~mw.next THEN Refused(mw)
     ELSE UpdateBucketVersioning(n, e,
            checkPermission("write", BucketResource, answer, up2).allowed)

HttpUploadObject(b, k, data, answer, up1, up2) ==
  LET mw == requirePermission("PUT", "write", ObjectResource,
                              pathParams(b, k), answer, up1)
  IN IF ~mw.next THEN Refused(mw)
     ELSE UploadObject(b, k, data,
            checkPermission("write", ObjectResource, answer, up2).allowed)

HttpDownloadObject(b, k, vid, answer, up1, up2) ==
  LET mw == requirePermission("GET", "read", ObjectResource,
                              pathParams(b, k), answer, up1)
  IN IF ~mw.next THEN Refused(mw)
     ELSE DownloadObject(b, k, vid,
            checkPermission("read", ObjectResource, answer, up2).allowed)

HttpDeleteObject(b, k, vid, answer, up1, up2) ==
  LET mw == requirePermission("DELETE", "delete", ObjectResource,
                              pathParams(b, k), answer, up1)
  IN IF ~mw.next THEN Refused(mw)
     ELSE DeleteObject(b, k, vid,
            checkPermission("delete", ObjectResource, answer, up2).allowed)

\* POST /:bucketName/:key names the destination; the middleware asks for
\* write, the service for read and for write
HttpCopyObject(sb, sk, db, dk, answerRead, answerWrite, up1, up2) ==
  LET mw == requirePermission("COPY", "write", ObjectResource,
                              pathParams(db, dk), answerWrite, up1)
  IN IF ~mw.next THEN Refused(mw)
     ELSE CopyObject(sb, sk, db, dk,
            checkPermission("read", ObjectResource, answerRead, up2).allowed,
            checkPermission("write", ObjectResource, answerWrite, up2).allowed)

NextHttp ==
  \/ \E n \in BucketNames, v \in BOOLEAN, a \in PolicyAnswers, up1 \in BOOLEAN :
        HttpCreateBucket(n, v, a, up1)
  \/ \E n \in BucketNames, e \in BOOLEAN, a \in PolicyAnswers,
        up1 \in BOOLEAN, up2 \in BOOLEAN : HttpUpdateBucketVersioning(n, e, a, up1, up2)
  \/ \E b \in BucketNames, k \in Keys, d \in Payloads, a \in PolicyAnswers,
        up1 \in BOOLEAN, up2 \in BOOLEAN : HttpUploadObject(b, k, d, a, up1, up2)
  \/ \E b \in BucketNames, k \in Keys, v \in VersionIds, a \in PolicyAnswers,
        up1 \in BOOLEAN, up2 \in BOOLEAN : HttpDownloadObject(b, k, v, a, up1, up2)
  \/ \E b \in BucketNames, k \in Keys, v \in VersionIds, a \in PolicyAnswers,
        up1 \in BOOLEAN, up2 \in BOOLEAN : HttpDeleteObject(b, k, v, a, up1, up2)
  \/ \E sb \in BucketNames, sk \in Keys, db \in BucketNames, dk \in Keys,
        ar \in PolicyAnswers, aw \in PolicyAnswers, up1 \in BOOLEAN, up2 \in BOOLEAN :
        HttpCopyObject(sb, sk, db, dk, ar, aw, up1, up2)

SpecHttp == Init /\ [][NextHttp]_vars

(* ------------- uploadObject as the steps between its awaits ----------- *)
\* catalog writes ahead of the physical write
putSteps_CatalogFirst == <<"versioning", "create", "store">>

\* the order of the awaited steps of uploadObject after the permission check:
\* storageProvider.putObject, the versioning branch, S3Object.create
putSteps == <<"store", "versioning", "create">>

\* the step that follows pc, "idle" after the last one
stepAfter(pc) ==
  LET i == CHOOSE j \in DOMAIN putSteps : putSteps[j] = pc
  IN IF i = Len(putSteps) THEN "idle" ELSE putSteps[i + 1]

\* the task of p moved to its next step
advance(p) ==
  IF stepAfter(tasks[p].pc) = "idle" THEN [tasks EXCEPT ![p] = IdleTask]
  ELSE [tasks EXCEPT ![p].pc = stepAfter(tasks[p].pc)]

\* Bucket.findOne and iamService.checkPermission
PutBegin(p, b, k, data, allowed) ==
  /\ tasks[p].pc = "idle"
  /\ Len(rows) + InFlight < MaxVersions
  /\ IF findBucket(buckets, b) = "none"
       THEN /\ resp' = Fail("PUT", 404, "BUCKET_NOT_FOUND")
            /\ UNCHANGED tasks
     ELSE IF ~allowed
       THEN /\ resp' = Fail("PUT", 403, "ACCESS_DENIED")
            /\ UNCHANGED tasks
     ELSE /\ \E f \in Files :
               /\ f.buffer = data
               /\ tasks' = [tasks EXCEPT ![p] =
                    [pc |-> putSteps[1], bucket |-> b, key |-> k, data |-> f.buffer,
                     metadata |-> [contentType |-> f.mimetype,
                                   userMetadata |-> parseUserMetadata(f.metadata)],
                     versioningEnabled |-> buckets[b].versioningEnabled]]
          /\ UNCHANGED resp
  /\ UNCHANGED <<buckets, rows, blobs, accessLogs>>

\* storageProvider.putObject
PutStore(p) ==
  /\ tasks[p].pc = "store"
  /\ blobs' = putObject(blobs, tasks[p].bucket, tasks[p].key, tasks[p].data)
  /\ tasks' = advance(p)
  /\ UNCHANGED <<buckets, rows, resp, accessLogs>>

\* the versioning branch: S3Object.update, or the lookup of the row to replace
PutVersioning(p) ==
  /\ tasks[p].pc = "versioning"
  /\ IF tasks[p].versioningEnabled
       THEN /\ rows' = markPreviousVersions(rows, tasks[p].bucket, tasks[p].key)
            /\ tasks' = advance(p)
            /\ UNCHANGED resp
     ELSE IF whereBucketName(rows, tasks[p].bucket).error
       THEN /\ resp' = Fail("PUT", 500, "DATABASE_ERROR")
            /\ tasks' = [tasks EXCEPT ![p] = IdleTask]
            /\ UNCHANGED rows
     ELSE /\ tasks' = advance(p)
          /\ UNCHANGED <<rows, resp>>
  /\ UNCHANGED <<buckets, blobs, accessLogs>>

\* S3Object.create, _logAccess and the return
PutCreate(p) ==
  /\ tasks[p].pc = "create"
  /\ LET etag == _calculateHash(tasks[p].data)
         rs2 == createRow(rows, tasks[p].bucket, tasks[p].key, tasks[p].data, etag,
                          tasks[p].metadata)
     IN Complete(Outcome(rs2, blobs,
                   Response("PUT", 201, "CREATED", EmptyData, etag,
                            Len(tasks[p].data), Len(rs2))),
                 tasks[p].bucket, tasks[p].key)
  /\ tasks' = advance(p)
  /\ UNCHANGED buckets

\* the process stops with calls in flight: the awaiting calls are gone and
\* answer nothing, the catalog and the files stay as they are
Crash ==
  /\ InFlight > 0
  /\ tasks' = [p \in Procs |-> IdleTask]
  /\ resp' = Fail("CRASH", 0, "NONE")
  /\ UNCHANGED <<buckets, rows, blobs, accessLogs>>

NextCrash ==
  \/ \E n \in BucketNames, v \in BOOLEAN : CreateBucket(n, v)
  \/ \E p \in Procs, b \in BucketNames, k \in Keys, d \in Payloads, a \in BOOLEAN :
        PutBegin(p, b, k, d, a)
  \/ \E p \in Procs : PutStore(p)
  \/ \E p \in Procs : PutVersioning(p)
  \/ \E p \in Procs : PutCreate(p)
  \/ Crash

SpecCrash == Init /\ [][NextCrash]_vars

\* --- a name created, deleted and created again by one client ---
\* createBucket(name), with no other such client under way
RoundCreate(p, name, versioningEnabled) ==
  LET o == createBucket(buckets, name, versioningEnabled) IN
  /\ tasks[p].pc = "idle"
  /\ InFlight = 0
  /\ buckets' = o.buckets
  /\ resp' = Fail("CREATE_BUCKET", o.status, o.code)
  /\ tasks' = [tasks EXCEPT ![p] =
       [pc |-> "created", bucket |-> name, versioningEnabled |-> versioningEnabled,
        created |-> o.status, deleted |-> 0, recreated |-> 0]]
  /\ UNCHANGED <<rows, blobs, accessLogs>>

\* deleteBucket(name) by a caller the oracle allows
RoundDelete(p) ==
  LET o == deleteBucket(buckets, rows, tasks[p].bucket, TRUE) IN
  /\ tasks[p].pc = "created"
  /\ buckets' = o.buckets
  /\ resp' = Fail("DELETE_BUCKET", o.status, o.code)
  /\ tasks' = [tasks EXCEPT ![p].pc = "deleted", ![p].deleted = o.status]
  /\ UNCHANGED <<rows, blobs, accessLogs>>

\* createBucket(name) again
RoundRecreate(p) ==
  LET o == createBucket(buckets, tasks[p].bucket, tasks[p].versioningEnabled) IN
  /\ tasks[p].pc = "deleted"
  /\ buckets' = o.buckets
  /\ resp' = Fail("CREATE_BUCKET", o.status, o.code)
  /\ tasks' = [tasks EXCEPT ![p].pc = "done", ![p].recreated = o.status]
  /\ UNCHANGED <<rows, blobs, accessLogs>>

RoundEnd(p) ==
  /\ tasks[p].pc = "done"
  /\ tasks' = [tasks EXCEPT ![p] = IdleTask]
  /\ UNCHANGED <<buckets, rows, blobs, resp, accessLogs>>

NextRound ==
  \/ \E p \in Procs, n \in BucketNames, v \in BOOLEAN : RoundCreate(p, n, v)
  \/ \E p \in Procs : RoundDelete(p)
  \/ \E p \in Procs : RoundRecreate(p)
  \/ \E p \in Procs : RoundEnd(p)
  \/ \E n \in BucketNames, e \in BOOLEAN, a \in BOOLEAN : UpdateBucketVersioning(n, e, a)

SpecRound == Init /\ [][NextRound]_vars

\* Puts in their steps beside bucket deletes
NextRace ==
  \/ \E n \in BucketNames, v \in BOOLEAN : CreateBucket(n, v)
  \/ \E n \in BucketNames, a \in BOOLEAN : DeleteBucket(n, a)
  \/ \E p \in Procs, b \in BucketNames, k \in Keys, d \in AuthzPayloads, a \in BOOLEAN :
        PutBegin(p, b, k, d, a)
  \/ \E p \in Procs : PutStore(p)
  \/ \E p \in Procs : PutVersioning(p)
  \/ \E p \in Procs : PutCreate(p)

SpecRace == Init /\ [][NextRace]_vars

\* --- putObject as the steps between its awaits ---
WriteKeys == {<<"k1">>}

\* _ensureDirectory: the call is under way, no file is touched yet
WriteBegin(p, b, k, data) ==
  /\ tasks[p].pc = "idle"
  /\ tasks' = [tasks EXCEPT ![p] =
       [pc |-> "open", path |-> _getObjectPath(_generateStorageKey(b, k)),
        data |-> data]]
  /\ UNCHANGED <<buckets, rows, blobs, resp, accessLogs>>

\* fs.writeFile(objectPath, data), flag 'w': the file is created or truncated
WriteOpen(p) ==
  /\ tasks[p].pc = "open"
  /\ blobs' = [blobs EXCEPT ![tasks[p].path] =
       [present |-> TRUE, data |-> EmptyData,
        meta |-> IF blobs[tasks[p].path].present
                   THEN blobs[tasks[p].path].meta ELSE NoMeta]]
  /\ tasks' = [tasks EXCEPT ![p].pc = "data"]
  /\ UNCHANGED <<buckets, rows, resp, accessLogs>>

\* fs.writeFile(objectPath, data): the bytes are written (the file is there:
\* nothing of this specification unlinks it)
WriteData(p) ==
  /\ tasks[p].pc = "data"
  /\ blobs' = [blobs EXCEPT ![tasks[p].path].data = tasks[p].data]
  /\ tasks' = [tasks EXCEPT ![p].pc = "meta"]
  /\ UNCHANGED <<buckets, rows, resp, accessLogs>>

\* fs.writeFile(metadataPath, ...) with the size and etag of the data handed
\* in, and the return
WriteMeta(p) ==
  /\ tasks[p].pc = "meta"
  /\ blobs' = [blobs EXCEPT ![tasks[p].path].meta =
       [present |-> TRUE, size |-> Len(tasks[p].data),
        etag |-> _calculateHash(tasks[p].data)]]
  /\ resp' = Response("STORE_PUT", 200, "OK", EmptyData, _calculateHash(tasks[p].data),
                      Len(tasks[p].data), NoVersion)
  /\ tasks' = [tasks EXCEPT ![p] = IdleTask]
  /\ UNCHANGED <<buckets, rows, accessLogs>>

NextWrite ==
  \/ \E p \in Procs, b \in BucketNames, k \in WriteKeys, d \in Payloads :
        WriteBegin(p, b, k, d)
  \/ \E p \in Procs : WriteOpen(p)
  \/ \E p \in Procs : WriteData(p)
  \/ \E p \in Procs : WriteMeta(p)
  \/ Crash
  \/ \E b \in BucketNames, k \in WriteKeys : StoreGet(b, k)
  \/ \E b \in BucketNames, k \in WriteKeys : StoreGetMetadata(b, k)

SpecWrite == InitStore /\ [][NextWrite]_vars

NextConc ==
  \/ \E n \in BucketNames, v \in BOOLEAN : CreateBucket(n, v)
  \/ \E n \in BucketNames, e \in BOOLEAN, a \in BOOLEAN : UpdateBucketVersioning(n, e, a)
  \/ \E p \in Procs, b \in BucketNames, k \in Keys, d \in Payloads, a \in BOOLEAN :
        PutBegin(p, b, k, d, a)
  \/ \E p \in Procs : PutStore(p)
  \/ \E p \in Procs : PutVersioning(p)
  \/ \E p \in Procs : PutCreate(p)
  \/ \E b \in BucketNames, k \in Keys, v \in VersionIds, a \in BOOLEAN : DeleteObject(b, k, v, a)

SpecConc == Init /\ [][NextConc]_vars

(* ------------- createBucket as the steps between its awaits ----------- *)
\* validateBucketName and Bucket.findOne({ where: { name } })
CreateBegin(p, name, versioningEnabled) ==
  /\ tasks[p].pc = "idle"
  /\ IF findBucket(buckets, name) # "none"
       THEN /\ resp' = Fail("CREATE_BUCKET", 409, "BUCKET_ALREADY_EXISTS")
            /\ UNCHANGED tasks
     ELSE /\ tasks' = [tasks EXCEPT ![p] =
                 [pc |-> "insert", name |-> name,
                  versioningEnabled |-> versioningEnabled]]
          /\ UNCHANGED resp
  /\ UNCHANGED <<buckets, rows, blobs, accessLogs>>

\* Bucket.create and the return (the error of the INSERT reaches the caller)
CreateInsert(p) ==
  /\ tasks[p].pc = "insert"
  /\ LET r == insertBucket(buckets, tasks[p].name, tasks[p].versioningEnabled) IN
       /\ buckets' = r.buckets
       /\ resp' = IF r.error THEN Fail("CREATE_BUCKET", 500, "DATABASE_ERROR")
                            ELSE Fail("CREATE_BUCKET", 201, "CREATED")
  /\ tasks' = [tasks EXCEPT ![p] = IdleTask]
  /\ UNCHANGED <<rows, blobs, accessLogs>>

NextCreate ==
  \/ \E p \in Procs, n \in BucketNames, v \in BOOLEAN : CreateBegin(p, n, v)
  \/ \E p \in Procs : CreateInsert(p)
  \/ \E n \in BucketNames, e \in BOOLEAN, a \in BOOLEAN : UpdateBucketVersioning(n, e, a)
  \/ \E n \in BucketNames, a \in BOOLEAN : DeleteBucket(n, a)

SpecCreate == Init /\ [][NextCreate]_vars

(* ============================== claims ================================ *)
latestRows(b, k) == matchVersion(rows, b, k, NoVersion)

versioned(b) == liveBucket(buckets, b) /\ buckets[b].versioningEnabled

unversioned(b) == liveBucket(buckets, b) /\ ~buckets[b].versioningEnabled

\* C1: in a versioning-enabled bucket, every key that has at
\* least one row has exactly one row with isLatest = true, after any sequence
\* of completed Put, Copy and Delete requests.
C1_ExactlyOneLatest ==
  \A b \in BucketNames, k \in Keys :
    (versioned(b) /\ keyRows(rows, b, k) # {}) => Cardinality(latestRows(b, k)) = 1

\* C2: in a bucket whose versioning flag is disabled at most one row exists
\* per key between requests, also after versioning was enabled and disabled.
C2_AtMostOneRowUnversioned ==
  \A b \in BucketNames, k \in Keys :
    unversioned(b) => Cardinality(keyRows(rows, b, k)) <= 1

\* C3: at most one row of a (bucket,key) has isLatest = true in every
\* reachable state, under every interleaving of concurrent Puts.
C3_AtMostOneLatestConcurrent ==
  \A b \in BucketNames, k \in Keys : Cardinality(latestRows(b, k)) <= 1

\* C4: every row with isLatest = true has bytes in the Physical Store at its
\* (bucket,key) whose content hash equals the row's etag.
C4_LatestRowHasItsBytes ==
  \A i \in Live(rows) :
    rows[i].isLatest =>
      LET f == blobs[<<rows[i].bucket, rows[i].key>>] IN
        /\ f.present
        /\ _calculateHash(f.data) = rows[i].etag

\* C5: a successful put(bucket,key,bytes) immediately followed by
\* get(bucket,key) returns the bytes and the hash of the bytes as etag, and
\* the catalog row carries that hash and the payload length.
C5_PutGetRoundTrip ==
  [][\A b \in BucketNames, k \in Keys, d \in Payloads :
       (UploadObject(b, k, d, TRUE) /\ resp'.status = 201) =>
         /\ \A r \in downloadObject(buckets', rows', blobs', b, k, NoVersion, TRUE) :
              r.status = 200 /\ r.body = d /\ r.etag = _calculateHash(d)
         /\ matchVersion(rows', b, k, NoVersion) # {}
         /\ \A i \in matchVersion(rows', b, k, NoVersion) :
              rows'[i].etag = _calculateHash(d) /\ rows'[i].size = Len(d)]_vars

\* C5 witness: a Put has just succeeded and the stored bytes are its payload
C5_Witness ==
  /\ resp.op = "PUT" /\ resp.status = 201
  /\ \E i \in Live(rows) :
       /\ rows[i].versionId = resp.versionId
       /\ blobs[<<rows[i].bucket, rows[i].key>>].present
       /\ blobs[<<rows[i].bucket, rows[i].key>>].data \in Payloads

\* C6: with versioning disabled, an authorized Put to a key that already has
\* a row succeeds, leaves exactly one row for the key, carrying the hash of
\* the new payload, and Get returns the new payload.
C6_UnversionedPutReplaces ==
  [][\A b \in BucketNames, k \in Keys, d \in Payloads :
       (UploadObject(b, k, d, TRUE) /\ unversioned(b) /\ keyRows(rows, b, k) # {}) =>
         /\ resp'.status = 201
         /\ Cardinality(keyRows(rows', b, k)) = 1
         /\ \A i \in keyRows(rows', b, k) : rows'[i].etag = _calculateHash(d)
         /\ \A r \in downloadObject(buckets', rows', blobs', b, k, NoVersion, TRUE) :
              r.status = 200 /\ r.body = d]_vars

\* C7: in a versioning-enabled bucket each successful Put adds exactly one
\* row to the versions listing of the key (n Puts without a Delete give n
\* rows), the row it created is the only latest one, and Get without a
\* versionId returns its payload.
C7_VersionedPutAppends ==
  [][\A b \in BucketNames, k \in Keys, d \in Payloads :
       (UploadObject(b, k, d, TRUE) /\ versioned(b)) =>
         /\ resp'.status = 201
         /\ listObjects(rows', b, TRUE) = listObjects(rows, b, TRUE) \cup {resp'.versionId}
         /\ resp'.versionId \notin listObjects(rows, b, TRUE)
         /\ Cardinality(keyRows(rows', b, k)) = Cardinality(keyRows(rows, b, k)) + 1
         /\ matchVersion(rows', b, k, NoVersion) = {resp'.versionId}
         /\ rows'[resp'.versionId].etag = _calculateHash(d)
         /\ \A r \in downloadObject(buckets', rows', blobs', b, k, NoVersion, TRUE) :
              r.status = 200 /\ r.body = d /\ r.etag = rows'[resp'.versionId].etag]_vars

\* C7 witness: the second Put to a key of a versioning-enabled bucket has
\* completed and two rows are listed
C7_Witness ==
  /\ resp.op = "PUT" /\ resp.status = 201
  /\ \E b \in BucketNames, k \in Keys :
       /\ versioned(b)
       /\ Cardinality(keyRows(rows, b, k)) = 2
       /\ latestRows(b, k) = {resp.versionId}

\* C8: Get and HEAD by an authorized caller on an existing bucket return
\* OBJECT_NOT_FOUND exactly when no row matches the versionId (or isLatest),
\* and succeed whenever a row matches.
C8_GetNotFoundIffNoRow ==
  [][\A b \in BucketNames, k \in Keys, v \in VersionIds :
       /\ (DownloadObject(b, k, v, TRUE) /\ liveBucket(buckets, b)) =>
            /\ (resp'.code = "OBJECT_NOT_FOUND") <=> (matchVersion(rows, b, k, v) = {})
            /\ (matchVersion(rows, b, k, v) # {}) => resp'.status = 200
       /\ (GetObjectMetadata(b, k, v, TRUE) /\ liveBucket(buckets, b)) =>
            /\ (resp'.code = "OBJECT_NOT_FOUND") <=> (matchVersion(rows, b, k, v) = {})
            /\ (matchVersion(rows, b, k, v) # {}) => resp'.status = 200]_vars

\* C9: an authorized Delete of an absent key or version returns NotFound and
\* changes neither the catalog nor the Physical Store; after a Delete that
\* succeeded, the same Delete returns NotFound and changes nothing.
C9_DeleteIdempotentOnAbsence ==
  [][\A b \in BucketNames, k \in Keys, v \in VersionIds :
       DeleteObject(b, k, v, TRUE) =>
         /\ (~liveBucket(buckets, b) \/ matchVersion(rows, b, k, v) = {}) =>
              /\ resp'.status = 404
              /\ rows' = rows
              /\ blobs' = blobs
         /\ (resp'.status = 204) =>
              LET again == deleteObjectService(buckets', rows', blobs', b, k, v, TRUE) IN
                /\ again.resp.status = 404
                /\ again.resp.code = "OBJECT_NOT_FOUND"
                /\ again.rows = rows'
                /\ again.blobs = blobs']_vars

\* C9 witness: a Delete has answered NotFound for a target that an earlier
\* Delete destroyed
C9_Witness ==
  /\ resp.op = "DELETE" /\ resp.code = "OBJECT_NOT_FOUND"
  /\ \E i \in Idx(rows) : rows[i].deleted

\* C10: deleting a bucket that owns a live row is rejected with
\* BUCKET_NOT_EMPTY and changes nothing; deleting a bucket without live rows
\* succeeds.
C10_BucketDeleteOnlyWhenEmpty ==
  [][\A b \in BucketNames :
       (DeleteBucket(b, TRUE) /\ liveBucket(buckets, b)) =>
         IF bucketRows(rows, b) # {}
           THEN /\ resp'.status = 409
                /\ resp'.code = "BUCKET_NOT_EMPTY"
                /\ buckets' = buckets
           ELSE /\ resp'.status = 204
                /\ ~liveBucket(buckets', b)]_vars

\* C11: at most one row of table "buckets" carries a given name in every
\* reachable state, also while two createBucket requests for one name are
\* between their lookup and their insert (so at most one live bucket has the
\* name), and a createBucket whose lookup finds a live bucket of that name
\* answers 409 BUCKET_ALREADY_EXISTS and changes nothing.
C11_BucketNamesUnique ==
  /\ [](\A n \in BucketNames : buckets[n].copies <= 1)
  /\ [][\A p \in Procs, n \in BucketNames, v \in BOOLEAN :
          (CreateBegin(p, n, v) /\ liveBucket(buckets, n)) =>
            /\ resp'.status = 409
            /\ resp'.code = "BUCKET_ALREADY_EXISTS"
            /\ UNCHANGED <<buckets, rows, blobs, tasks>>]_vars

\* C11 witness: of two createBucket requests that both found the name free,
\* one has inserted the bucket and the other was refused by the unique index
C11_Witness ==
  /\ resp.op = "CREATE_BUCKET" /\ resp.code = "DATABASE_ERROR"
  /\ \E n \in BucketNames : liveBucket(buckets, n) /\ buckets[n].copies = 1

\* C12: a Copy whose source bucket and key are the destination's is rejected
\* and changes neither the catalog nor the Physical Store, through the
\* controller and through ObjectService.copyObject alike.
C12_SelfCopyRejected ==
  [][\A b \in BucketNames, k \in Keys, ar \in BOOLEAN, aw \in BOOLEAN :
       (CopyObject(b, k, b, k, ar, aw) \/ CopyObjectService(b, k, b, k, ar, aw)) =>
         /\ resp'.status >= 400
         /\ rows' = rows
         /\ blobs' = blobs]_vars

\* C13: a copy between existing buckets for which the oracle denies the read
\* of the source or the write of the destination answers 403 ACCESS_DENIED,
\* writes no bytes and creates or changes no catalog row.
C13_CopyNeedsReadAndWrite ==
  [][\A sb \in BucketNames, sk \in Keys, db \in BucketNames, dk \in Keys,
        ar \in BOOLEAN, aw \in BOOLEAN :
       (/\ ~(ar /\ aw)
        /\ liveBucket(buckets, sb) /\ liveBucket(buckets, db)
        /\ resp'.op = "COPY"
        /\ CopyObjectService(sb, sk, db, dk, ar, aw)) =>
         /\ resp'.status = 403
         /\ resp'.code = "ACCESS_DENIED"
         /\ rows' = rows
         /\ blobs' = blobs]_vars

\* C13 witness: a copy was denied while a source object was there to be read
C13_Witness ==
  /\ resp.op = "COPY" /\ resp.code = "ACCESS_DENIED"
  /\ \E b \in BucketNames, k \in Keys :
       latestRows(b, k) # {} /\ blobs[<<b, k>>].present

\* C14: a copy that succeeded has created, for the destination key, a row
\* with a version id no row had before, which is the key's only latest row;
\* the destination's bytes are the source's bytes, the row's etag and size
\* describe them, its content type and user metadata are those of the
\* source's latest row, and catalog and store are what a Put of those bytes
\* and that metadata to the destination would have left.
C14_CopyIsReadThenPut ==
  [][\A sb \in BucketNames, sk \in Keys, db \in BucketNames, dk \in Keys :
       (/\ resp'.op = "COPY" /\ resp'.status = 201
        /\ CopyObjectService(sb, sk, db, dk, TRUE, TRUE)) =>
         LET n == resp'.versionId
             bytes == blobs[<<sb, sk>>].data
         IN /\ n \notin {rows[i].versionId : i \in Idx(rows)}
            /\ matchVersion(rows', db, dk, NoVersion) = {n}
            /\ blobs'[<<db, dk>>].present
            /\ blobs'[<<db, dk>>].data = bytes
            /\ rows'[n].etag = _calculateHash(bytes)
            /\ rows'[n].size = Len(bytes)
            /\ \E i \in matchVersion(rows, sb, sk, NoVersion) :
                 /\ rows'[n].contentType = rows[i].contentType
                 /\ rows'[n].metadata = rows[i].metadata
            /\ LET put == uploadObject(buckets, rows, blobs, "PUT", db, dk, bytes,
                                       [contentType |-> rows'[n].contentType,
                                        userMetadata |-> rows'[n].metadata], TRUE)
               IN rows' = put.rows /\ blobs' = put.blobs]_vars

\* C14 witness: a copy has succeeded whose row carries a content type and
\* user metadata other than the defaults, next to the source's row
C14_Witness ==
  /\ resp.op = "COPY" /\ resp.status = 201
  /\ rows[resp.versionId].contentType = "text/plain"
  /\ rows[resp.versionId].metadata # EmptyObject
  /\ \E i \in Live(rows) :
       /\ i # resp.versionId
       /\ rows[i].bucket # rows[resp.versionId].bucket
       /\ rows[i].metadata = rows[resp.versionId].metadata

\* C15: a Put during which a call to the Authorization Gateway fails (the
\* middleware's call, or the service's call once the middleware has let the
\* request through to an existing bucket) is answered 403 with the reason the
\* gateway wrapper gives for an unreachable service, a reason no policy
\* answer carries, and changes neither the catalog nor the Physical Store.
C15_FailClosedWithReason ==
  [][\A b \in BucketNames, k \in Keys, d \in Payloads, a \in PolicyAnswers,
        up1 \in BOOLEAN, up2 \in BOOLEAN :
       (/\ resp'.op = "PUT"
        /\ (~up1 \/ (a.allowed /\ liveBucket(buckets, b) /\ ~up2))
        /\ HttpUploadObject(b, k, d, a, up1, up2)) =>
         /\ resp'.status = 403
         /\ resp'.reason = checkPermission("write", ObjectResource, a, FALSE).reason
         /\ \A a2 \in PolicyAnswers : resp'.reason # a2.reason
         /\ UNCHANGED <<buckets, rows, blobs>>]_vars

\* C16: a request the oracle denies, to any handler that changes state (Put,
\* Delete, Copy, ACL update, tag update, bucket delete, bucket policy,
\* versioning and CORS update), leaves the buckets, the catalog rows and the
\* Physical Store exactly as they were, and is answered 403 whenever the
\* buckets it names exist.
C16_AuthorizationPrecedesExecution ==
  [][CASE resp'.op = "PUT" ->
            \A b \in BucketNames, k \in Keys, d \in Payloads :
              UploadObject(b, k, d, FALSE) =>
                /\ UNCHANGED <<buckets, rows, blobs>>
                /\ liveBucket(buckets, b) => resp'.status = 403
       [] resp'.op = "DELETE" ->
            \A b \in BucketNames, k \in Keys, v \in VersionIds :
              DeleteObject(b, k, v, FALSE) =>
                /\ UNCHANGED <<buckets, rows, blobs>>
                /\ liveBucket(buckets, b) => resp'.status = 403
       [] resp'.op = "COPY" ->
            \A sb \in BucketNames, sk \in Keys, db \in BucketNames, dk \in Keys,
               ar \in BOOLEAN, aw \in BOOLEAN :
              (~(ar /\ aw) /\ CopyObject(sb, sk, db, dk, ar, aw)) =>
                /\ UNCHANGED <<buckets, rows, blobs>>
                /\ (liveBucket(buckets, sb) /\ liveBucket(buckets, db)
                     /\ <<sb, sk>> # <<db, dk>>) => resp'.status = 403
       [] resp'.op = "PUT_ACL" ->
            \A b \in BucketNames, k \in Keys, g \in GrantsInputs :
              UpdateObjectAcl(b, k, g, FALSE) =>
                /\ UNCHANGED <<buckets, rows, blobs>>
                /\ liveBucket(buckets, b) => resp'.status = 403
       [] resp'.op = "PUT_TAGGING" ->
            \A b \in BucketNames, k \in Keys, t \in TagSetInputs :
              UpdateObjectTags(b, k, t, FALSE) =>
                /\ UNCHANGED <<buckets, rows, blobs>>
                /\ liveBucket(buckets, b) => resp'.status = 403
       [] resp'.op = "DELETE_BUCKET" ->
            \A n \in BucketNames :
              DeleteBucket(n, FALSE) =>
                /\ UNCHANGED <<buckets, rows, blobs>>
                /\ liveBucket(buckets, n) => resp'.status = 403
       [] resp'.op = "PUT_POLICY" ->
            \A n \in BucketNames, p \in PolicyInputs :
              UpdateBucketPolicy(n, p, FALSE) =>
                /\ UNCHANGED <<buckets, rows, blobs>>
                /\ liveBucket(buckets, n) => resp'.status = 403
       [] resp'.op = "PUT_VERSIONING" ->
            \A n \in BucketNames, e \in BOOLEAN :
              UpdateBucketVersioning(n, e, FALSE) =>
                /\ UNCHANGED <<buckets, rows, blobs>>
                /\ liveBucket(buckets, n) => resp'.status = 403
       [] resp'.op = "PUT_CORS" ->
            \A n \in BucketNames, c \in CorsInputs :
              UpdateBucketCors(n, c, FALSE) =>
                /\ UNCHANGED <<buckets, rows, blobs>>
                /\ liveBucket(buckets, n) => resp'.status = 403
       [] OTHER -> TRUE]_vars

\* a tag update was refused while the object it names had a latest row, with
\* tags set by an earlier request, in a bucket whose policy was never set
C16_Witness ==
  /\ resp.op = "PUT_TAGGING"
  /\ resp.code = "ACCESS_DENIED"
  /\ \E b \in BucketNames, k \in Keys :
       /\ liveBucket(buckets, b)
       /\ \E i \in matchVersion(rows, b, k, NoVersion) : rows[i].tags # EmptyTags

\* C17: an object-level request (Put, Get, Delete) naming a bucket that does
\* not exist is answered 404 BUCKET_NOT_FOUND whatever the oracle answers, and
\* one the oracle denies on an existing bucket is answered 403, never
\* OBJECT_NOT_FOUND, whether or not the object exists.
C17_CanonicalCheckOrder ==
  [][\A b \in BucketNames, k \in Keys, a \in PolicyAnswers,
        up1 \in BOOLEAN, up2 \in BOOLEAN :
       ((\/ resp'.op = "PUT"
            /\ \E d \in Payloads : HttpUploadObject(b, k, d, a, up1, up2)
         \/ resp'.op = "GET"
            /\ \E v \in VersionIds : HttpDownloadObject(b, k, v, a, up1, up2)
         \/ resp'.op = "DELETE"
            /\ \E v \in VersionIds : HttpDeleteObject(b, k, v, a, up1, up2))) =>
         /\ ~liveBucket(buckets, b) =>
              (resp'.status = 404 /\ resp'.code = "BUCKET_NOT_FOUND")
         /\ (liveBucket(buckets, b) /\ ~a.allowed) =>
              (resp'.status = 403 /\ resp'.code # "OBJECT_NOT_FOUND")]_vars

\* C18: the resource the route middleware hands to the oracle, which its 403
\* answer reports, names the target of the request: the bucket name for a
\* bucket-level request, the bucket name and the key for an object-level one.
C18_ResourceIdentifiesTarget ==
  [][/\ \A n \in BucketNames, e \in BOOLEAN, a \in PolicyAnswers,
           up1 \in BOOLEAN, up2 \in BOOLEAN :
          (resp'.code = "PERMISSION_DENIED"
           /\ HttpUpdateBucketVersioning(n, e, a, up1, up2)) =>
            \E i \in DOMAIN resp'.resource : resp'.resource[i] = n
     /\ \A b \in BucketNames, k \in Keys, a \in PolicyAnswers,
           up1 \in BOOLEAN, up2 \in BOOLEAN :
          (resp'.code = "PERMISSION_DENIED"
           /\ (\/ \E d \in Payloads : HttpUploadObject(b, k, d, a, up1, up2)
               \/ \E v \in VersionIds : HttpDownloadObject(b, k, v, a, up1, up2)
               \/ \E v \in VersionIds : HttpDeleteObject(b, k, v, a, up1, up2))) =>
            /\ \E i \in DOMAIN resp'.resource : resp'.resource[i] = b
            /\ \E i \in DOMAIN resp'.resource : resp'.resource[i] = k]_vars

\* C19: every Put, Get, Delete and Copy request on (b, k) that ends in
\* success, in a denial or in not-found appends one entry to the Access Audit
\* Trail, naming the actor and the resource b/k.
C19_AuditEntryAppended ==
  [][\A b \in BucketNames, k \in Keys, a \in BOOLEAN :
       (/\ resp'.status \in {200, 201, 204, 403, 404}
        /\ \/ \E d \in Payloads : UploadObject(b, k, d, a)
           \/ \E v \in VersionIds : DownloadObject(b, k, v, a)
           \/ \E v \in VersionIds : DeleteObject(b, k, v, a)
           \/ \E sb \in BucketNames, sk \in Keys, ar \in BOOLEAN :
                CopyObject(sb, sk, b, k, ar, a)) =>
         /\ Len(accessLogs') = Len(accessLogs) + 1
         /\ accessLogs'[Len(accessLogs')].userId = Actor
         /\ accessLogs'[Len(accessLogs')].resource = <<b, "/", k>>]_vars

C21_DefaultAclOfOwner ==
  [][\A b \in BucketNames, k \in Keys, u \in Users :
       (/\ resp'.op = "GET_ACL"
        /\ resp'.status = 200
        /\ \A i \in matchVersion(rows, b, k, NoVersion) : rows[i].acl = NoAcl
        /\ GetObjectAcl(b, k, u, TRUE)) =>
         \E i \in matchVersion(rows, b, k, NoVersion) :
           resp'.acl = [owner |-> rows[i].ownerId,
                        grants |-> <<[grantee |-> rows[i].ownerId,
                                      permission |-> "FULL_CONTROL"]>>]]_vars

\* C22: a tag update the oracle allows, on an object that has a latest row, is
\* rejected with status 400 and leaves every row as it was when the submitted
\* set is not a list or one of its tags has an empty key or an empty value;
\* otherwise it is accepted and the row's stored tags are made of the submitted
\* tags only: every stored pair is a submitted one and every submitted key is
\* stored.
C22_TagUpdateValidatesAndReplaces ==
  [][\A b \in BucketNames, k \in Keys, t \in TagSetBodies :
       (/\ resp'.op = "PUT_TAGGING"
        /\ liveBucket(buckets, b)
        /\ matchVersion(rows, b, k, NoVersion) # {}
        /\ UpdateObjectTags(b, k, t, TRUE)) =>
         IF ~t.array \/ \E j \in DOMAIN t.items :
                          t.items[j].key = "" \/ t.items[j].value = ""
           THEN resp'.status = 400 /\ rows' = rows
         ELSE /\ resp'.status = 200
              /\ \E i \in matchVersion(rows, b, k, NoVersion) :
                   /\ \A p \in DOMAIN rows'[i].tags :
                        \E j \in DOMAIN t.items :
                          /\ t.items[j].key = rows'[i].tags[p][1]
                          /\ t.items[j].value = rows'[i].tags[p][2]
                   /\ \A j \in DOMAIN t.items :
                        \E p \in DOMAIN rows'[i].tags :
                          rows'[i].tags[p][1] = t.items[j].key
                   /\ rows' = [rows EXCEPT ![i].tags = rows'[i].tags]]_vars

\* a tag update was rejected for an empty key or value while the object's
\* latest row had tags stored by an earlier update
C22_Witness ==
  /\ resp.op = "PUT_TAGGING"
  /\ resp.code = "INVALID_TAG"
  /\ \E i \in Live(rows) : rows[i].isLatest /\ Len(rows[i].tags) = 2

\* C23: after a tag update accepted with the list T on (b, k), a tag get on
\* (b, k) answers 200 with exactly the {key, value} pairs of T, in T's order.
C23_TagRoundTrip ==
  [][\A b \in BucketNames, k \in Keys, t \in TagSetBodies :
       (/\ resp'.op = "PUT_TAGGING"
        /\ resp'.status = 200
        /\ UpdateObjectTags(b, k, t, TRUE)) =>
         \A r \in getObjectTags(buckets', rows', b, k, TRUE) :
           r.status = 200 /\ r.tagSet = t.items]_vars

\* C24: a listing the oracle allows, with no delimiter and a page limit above
\* the number of rows, has one entry for each row of the bucket whose key starts
\* with the prefix and comes after the marker (the latest rows only, unless
\* versions is asked), no other entry, and its entries in the order of their keys.
C24_ListReturnsMatchingRows ==
  [][\A b \in BucketNames, o \in ListOptions :
       (/\ resp'.op = "LIST"
        /\ resp'.status = 200
        /\ o.delimiter = ""
        /\ o.maxKeys = 1000
        /\ ListObjects(b, o, TRUE)) =>
         LET expected == {i \in bucketRows(rows, b) :
                            /\ o.versions \/ rows[i].isLatest
                            /\ Len(rows[i].key) >= Len(o.prefix)
                            /\ SubSeq(rows[i].key, 1, Len(o.prefix)) = o.prefix
                            /\ o.marker # <<>> => KeyLess(o.marker, rows[i].key)}
             contents == resp'.list.contents
         IN /\ \A k \in ListKeys :
                 Cardinality({p \in DOMAIN contents : contents[p].key = k})
                   = Cardinality({i \in expected : rows[i].key = k})
            /\ \A p, q \in DOMAIN contents :
                 p < q => ~KeyLess(contents[q].key, contents[p].key)]_vars

\* C25: a listing the oracle allows, with no delimiter, is reported truncated
\* exactly when rows matching the request remain beyond the entries returned;
\* when truncated it has maxKeys entries and its nextMarker is the key of the
\* last entry.
C25_ListTruncation ==
  [][\A b \in BucketNames, o \in ListOptions :
       (/\ resp'.op = "LIST"
        /\ resp'.status = 200
        /\ o.delimiter = ""
        /\ ListObjects(b, o, TRUE)) =>
         LET contents == resp'.list.contents
             remain == Cardinality(listMatches(rows, b, o)) > Len(contents)
         IN /\ resp'.list.isTruncated <=> remain
            /\ resp'.list.isTruncated =>
                 /\ Len(contents) = o.maxKeys
                 /\ resp'.list.nextMarker = contents[Len(contents)].key]_vars

\* C26: the file a put, a get or a delete of (bucket, key) names lies under
\* the store root, inside the directory of that bucket, and a put or a delete
\* changes no file outside that directory.
C26_PathInsideBucket ==
  [][\A b \in BucketNames, k \in PathKeys :
       ((\E d \in Payloads : StorePut(b, k, d)) \/ StoreGet(b, k) \/ StoreDelete(b, k)) =>
         LET objectPath == _getObjectPath(_generateStorageKey(b, k))
             inside(p) == /\ Len(p) > Len(basePath) + 1
                          /\ SubSeq(p, 1, Len(basePath) + 1) = basePath \o <<b>>
                          /\ \A i \in DOMAIN p : p[i] # ".."
         IN /\ inside(objectPath)
            /\ \A p \in DOMAIN blobs : blobs'[p] # blobs[p] => inside(p)]_vars

\* C27: every validator rejects a name of length 2, a name of length 64 and a
\* name shaped like an IPv4 literal, and accepts a name of length 63 made of
\* lowercase alphanumerics and hyphens that starts and ends alphanumeric; so
\* the three validators give one answer on these names.
C27_NameBoundaries ==
  LET name == resp.resource
      accepted == resp.status = 200
      validCharset == /\ \A i \in DOMAIN name : name[i] \in LowerAlnum \cup {"-"}
                      /\ name[1] \in LowerAlnum
                      /\ name[Len(name)] \in LowerAlnum
  IN resp.op \in {"HELPERS", "JOI", "STORAGE_UTILS"} =>
       /\ Len(name) = 2 => ~accepted
       /\ Len(name) = 64 => ~accepted
       /\ ipRegex(name, 3) => ~accepted
       /\ (Len(name) = 63 /\ validCharset) => accepted
       /\ (Len(name) \in {2, 63, 64} \/ ipRegex(name, 3)) =>
            /\ validateBucketName(name) = commonSchemas_bucketName(name)
            /\ validateBucketName(name) = StorageUtils_validateBucketName(name)

\* C28: a Put writes the bytes and the sidecar before any catalog write for
\* the new version, so whatever the point at which the process stops, every
\* catalog row has its bytes in the Physical Store (a blob may have no row).
C28_BytesBeforeCatalog ==
  /\ \A i \in DOMAIN rows :
       ~rows[i].deleted => blobs[<<rows[i].bucket, rows[i].key>>].present
  /\ \A p \in Procs :
       tasks[p].pc \in {"versioning", "create"} =>
         /\ blobs[<<tasks[p].bucket, tasks[p].key>>].present
         /\ blobs[<<tasks[p].bucket, tasks[p].key>>].meta.present

\* the process stopped after a Put wrote its bytes and before its row: the
\* blob is orphaned
C28_Witness ==
  /\ resp.op = "CRASH"
  /\ \E b \in BucketNames, k \in Keys :
       /\ blobs[<<b, k>>].present
       /\ \A i \in DOMAIN rows : ~(rows[i].bucket = b /\ rows[i].key = k)
       /\ buckets[b].state = "live" /\ buckets[b].versioningEnabled
  /\ rows # <<>>

C31_BlobAndSidecarAgree ==
  (resp.op = "STORE_GET" /\ resp.status = 200) =>
     /\ resp.size = Len(resp.body)
     /\ resp.etag = _calculateHash(resp.body)

\* C32: an ACL update or a tag update changes the acl (tags) attribute of
\* the latest row of its (bucket, key) and nothing else: no other row, no
\* other attribute, no bucket, no bytes. An ACL or tag read answers from the
\* row that is latest when it is made; and a Put leaves its new row as the
\* only latest one, without ACL and without tags, so what was set on the
\* previous latest row is no longer returned.
C32_AttributesOfLatestOnly ==
  [][CASE resp'.op = "PUT_ACL" ->
            \A b \in BucketNames, k \in Keys, g \in AttrGrants, a \in BOOLEAN :
              UpdateObjectAcl(b, k, g, a) =>
                /\ blobs' = blobs /\ buckets' = buckets /\ Len(rows') = Len(rows)
                /\ \A i \in DOMAIN rows :
                     rows'[i] # rows[i] =>
                       /\ rows[i].bucket = b /\ rows[i].key = k /\ rows[i].isLatest
                       /\ rows'[i] = [rows[i] EXCEPT !.acl = rows'[i].acl]
                /\ resp'.status = 200 =>
                     \E i \in DOMAIN rows' :
                       /\ rows'[i].isLatest /\ rows'[i].bucket = b /\ rows'[i].key = k
                       /\ rows'[i].acl.grants = g.items
       [] resp'.op = "PUT_TAGGING" ->
            \A b \in BucketNames, k \in Keys, t \in AttrTagSets, a \in BOOLEAN :
              UpdateObjectTags(b, k, t, a) =>
                /\ blobs' = blobs /\ buckets' = buckets /\ Len(rows') = Len(rows)
                /\ \A i \in DOMAIN rows :
                     rows'[i] # rows[i] =>
                       /\ rows[i].bucket = b /\ rows[i].key = k /\ rows[i].isLatest
                       /\ rows'[i] = [rows[i] EXCEPT !.tags = rows'[i].tags]
       [] resp'.op = "GET_ACL" /\ resp'.status = 200 ->
            \A b \in BucketNames, k \in Keys :
              GetObjectAcl(b, k, Actor, TRUE) =>
                \E i \in DOMAIN rows :
                  /\ rows[i].isLatest /\ rows[i].bucket = b /\ rows[i].key = k
                  /\ rows[i].acl # NoAcl => resp'.acl = rows[i].acl
                  /\ rows[i].acl = NoAcl =>
                       \A j \in DOMAIN rows :
                         rows[j].acl # NoAcl => resp'.acl.grants # rows[j].acl.grants
       [] resp'.op = "GET_TAGGING" /\ resp'.status = 200 ->
            \A b \in BucketNames, k \in Keys :
              GetObjectTags(b, k, TRUE) =>
                \E i \in DOMAIN rows :
                  /\ rows[i].isLatest /\ rows[i].bucket = b /\ rows[i].key = k
                  /\ \A p \in 1..Len(resp'.tagSet) :
                       <<resp'.tagSet[p].key, resp'.tagSet[p].value>> = rows[i].tags[p]
                  /\ Len(resp'.tagSet) = Len(rows[i].tags)
       [] resp'.op = "PUT" /\ resp'.status = 201 ->
            /\ rows'[Len(rows')].acl = NoAcl
            /\ rows'[Len(rows')].tags = EmptyTags
            /\ \A i \in DOMAIN rows' :
                 (/\ rows'[i].isLatest
                  /\ rows'[i].bucket = rows'[Len(rows')].bucket
                  /\ rows'[i].key = rows'[Len(rows')].key) => i = Len(rows')
       [] OTHER -> TRUE]_vars

\* an ACL and tags were set on version 1, version 2 was put, and the ACL read
\* answers with the default ACL of version 2
C32_Witness ==
  /\ Len(rows) = 2
  /\ rows[1].bucket = rows[2].bucket /\ rows[1].key = rows[2].key
  /\ rows[1].acl # NoAcl /\ rows[1].tags # EmptyTags /\ ~rows[1].isLatest
  /\ rows[2].isLatest /\ rows[2].acl = NoAcl /\ rows[2].tags = EmptyTags
  /\ resp.op = "GET_ACL" /\ resp.status = 200
  /\ resp.acl.grants # rows[1].acl.grants

C34_MissingSidecarDegrades ==
  [][\A b \in BucketNames, k \in WriteKeys :
       LET f == blobs[_getObjectPath(_generateStorageKey(b, k))] IN
       (/\ resp'.op \in {"STORE_GET", "STORE_HEAD"}
        /\ f.present
        /\ ~f.meta.present
        /\ f.data # EmptyData
        /\ StoreGet(b, k) \/ StoreGetMetadata(b, k)) =>
         /\ resp'.status = 200
         /\ resp'.size = Len(f.data)]_vars

\* C35: a listing followed page by page, each nextMarker given as the next
\* marker until a page is not truncated, with no write in between, has shown
\* every matching row exactly once: each key as many times as the bucket has
\* rows of it (latest rows in default mode, all rows in versions mode).
C35_PaginationComplete ==
  \A p \in Procs :
    tasks[p].pc = "done" =>
      \A k \in PageKeys :
        Cardinality({q \in DOMAIN tasks[p].keys : tasks[p].keys[q] = k})
          = Cardinality({i \in bucketRows(rows, tasks[p].bucket) :
                           /\ rows[i].key = k
                           /\ tasks[p].versions \/ rows[i].isLatest})

\* C36: for one (bucket, key) and one versionId argument (or none), the etag
\* and size that getObjectMetadata reports are those that downloadObject
\* reports, and they are the hash and the length of the bytes it streams.
C36_HeadAndGetAgree ==
  [][\A b \in BucketNames, k \in Keys, v \in VersionIds :
       (/\ resp'.op = "GET"
        /\ resp'.status = 200
        /\ DownloadObject(b, k, v, TRUE)) =>
         /\ \A h \in getObjectMetadata(buckets, rows, b, k, v, TRUE) :
              /\ h.status = 200
              /\ h.etag = resp'.etag
              /\ h.size = resp'.size
         /\ resp'.etag = _calculateHash(resp'.body)
         /\ resp'.size = Len(resp'.body)]_vars

C39_AddressingInjective ==
  [][\A b \in BucketNames, k \in FileKeys :
       (/\ resp'.op \in {"STORE_PUT", "STORE_DELETE"}
        /\ (\E d \in AuthzPayloads : FilePut(b, k, d)) \/ FileDelete(b, k)) =>
         /\ \A b2 \in BucketNames, k2 \in FileKeys :
              <<b2, k2>> # <<b, k>> => fileRead(blobs', b2, k2) = fileRead(blobs, b2, k2)
         /\ resp'.op = "STORE_PUT" => k \in fileList(blobs', b)]_vars

\* C40: a Put that answers with an error has no effect that can be seen: the
\* catalog rows are as before, and a following Get of any (bucket, key) and
\* version answers as it would have before the Put (bytes, etag, size).
C40_FailedPutHasNoEffect ==
  [][(resp'.op = "PUT" /\ resp'.status >= 400) =>
       /\ rows' = rows
       /\ \A b \in BucketNames, k \in Keys, v \in VersionIds :
            downloadObject(buckets', rows', blobs', b, k, v, TRUE)
              = downloadObject(buckets, rows, blobs, b, k, v, TRUE)]_vars

====
